---- MODULE Spec2Model ----
(***************************************************************************)
(* State-machine model of the RAG engine (src/src/core/rag_system.py):     *)
(* RAGSystem instances held by Streamlit sessions, the Pinecone index they *)
(* share, the per-session registry of temporary namespaces and the atexit  *)
(* callbacks.  Every backend call (Pinecone, the retriever, the language   *)
(* model) may raise; which call raises is an input of the action.  The     *)
(* chat tab (src/src/components/chat_tab.py) and the web scraper           *)
(* (src/src/core/document_processor.py) are modelled in their own          *)
(* sections, each with its own specification.                              *)
(***************************************************************************)
EXTENDS Integers, Sequences, FiniteSets, TLC

\* ------------------------------------------------------------------ bounds
MaxTime == 1        \* clock readings are 0..MaxTime
MaxVectors == 2     \* most vectors held by the whole index
MaxMessages == 4    \* most turns of a transcript
MaxOpenForms == 1   \* most feedback forms open at a time
MaxWindow == 1      \* MAX_CHAT_HISTORY_CONTEXT is 0..MaxWindow
MaxPages == 3       \* scrape_website is called with max_pages in 1..MaxPages
MaxRetrieved == 3   \* most chunks of a retrieval result drawn directly
MaxRegistrations == 2 \* most callbacks registered with atexit
MaxTurnsOnPage == 2 \* most turns of the transcript in the runs of the sidebar

\* --------------------------------------------------------------- constants
RETRIEVAL_K == 5    \* Config.RETRIEVAL_K
LINKS_PER_PAGE == 5 \* links[:5] in WebScraper._find_additional_links
INDEX_DIMENSION == 384 \* pc.create_index(dimension=384)
MIN_CONTENT == 100  \* a page is kept when len(content) > 100

\* A namespace is a sequence of string pieces (an f-string is the
\* concatenation of its pieces); None is the empty sequence.
None == << >>
TEMP_PREFIX == "temp_session_"
PERSISTENT == <<"persistent">>
SessionIds == {<<"a1">>, <<"b2">>}                \* values of str(uuid.uuid4())[:8]
TempNamespace(session_id) == <<TEMP_PREFIX>> \o session_id
Namespaces == {PERSISTENT} \cup {TempNamespace(i) : i \in SessionIds}
startswith(namespace, prefix) == Len(namespace) >= 1 /\ namespace[1] = prefix

StorageModes == {"permanent", "temporary"}        \* setup_vectorstore(storage_mode)
NoScope == "None"                                 \* clear_database(storage_mode=None)
Scopes == {NoScope, "temporary", "permanent"}
Questions == {"q1", "q2"}

\* Documents handed to add_documents_to_vectorstore: metadata and the number
\* of chunks the text splitter cuts the page content into.
Docs == {"d1"}
\* The documents scrape_website builds from the pages of the site.
PageDocs == {"page /", "page /a", "page /b"}
Metadata(d) ==
  IF d \in PageDocs
    THEN [source |-> IF d = "page /" THEN "https://site/"
                     ELSE IF d = "page /a" THEN "https://site/a" ELSE "https://site/b",
          type |-> "website"]
  ELSE [source |-> IF d = "d1" THEN "https://site/a"
                   ELSE IF d = "d2" THEN "https://site/b" ELSE "https://site/c",
        type |-> "web"]
NumChunks(d) == 1
Chunks == UNION {{<<d, i>> : i \in 1..NumChunks(d)} : d \in Docs \cup PageDocs}

VARIABLES
  PINECONE_AVAILABLE,  \* module flag set by the import at line 16-21
  rag_system,          \* session -> the RAGSystem it holds (st.session_state.rag_system)
  setup_succeeded,     \* session -> history: setup returned True since construction / last reset
  temp_namespaces,     \* session -> st.session_state.temp_namespaces
  atexit,              \* the callbacks registered with atexit, in registration order
  index_status,        \* "absent" | "initializing" | "ready"
  index,               \* namespace -> bag of chunks (chunk -> number of vectors)
  last,                \* the last call and what it returned
  config,              \* Config: the chat settings read from the environment
  messages,            \* session -> st.session_state.messages
  feedback_data,       \* session -> st.session_state.feedback_data, in insertion order
  conversation_context,\* session -> st.session_state.conversation_context
  show_feedback_form,  \* session -> the indices i with show_feedback_form_i set
  chat_input,          \* session -> the chat input handled last and what was made of it
  negative_recorded,   \* session -> history: a negative rating was stored since the chat was cleared
  web,                 \* URL -> the page the site serves
  scraper,             \* the locals of the running WebScraper.scrape_website call
  setup_call,          \* session -> the setup_vectorstore call in progress, if any
  embedding_config,    \* Config: EMBEDDING_MODEL and EMBEDDING_DEVICE
  embeddings,          \* session -> the embeddings of its engine and how they were built
  index_dimension,     \* the vector dimension of the index (0 while it does not exist)
  session_state,       \* session -> whether st.session_state holds rag_system, and its db_key
  sidebar              \* session -> the storage mode the radio shows and whether the run was stopped

\* The state of the chat tab and of the web scraper.
chat_vars == <<config, messages, feedback_data, conversation_context,
               show_feedback_form, chat_input, negative_recorded>>
scraper_vars == <<web, scraper>>

\* The state of index provisioning and of the embedding models.
deploy_vars == <<setup_call, embedding_config, embeddings, index_dimension>>

\* The state the sidebar keeps between the runs of the script.
sidebar_vars == <<session_state, sidebar>>

vars == <<PINECONE_AVAILABLE, rag_system, setup_succeeded, temp_namespaces,
          atexit, index_status, index, last, chat_vars, scraper_vars, deploy_vars,
          sidebar_vars>>

Sessions == DOMAIN rag_system

\* ------------------------------------------------------------- RAGSystem
\* RAGSystem.__init__: the storage attributes of a new instance.
NewRAGSystem ==
  [vectorstore |-> None, qa_chain |-> None, sources |-> << >>,
   current_namespace |-> None, session_id |-> None]

EmptyBag == [c \in Chunks |-> 0]
EmptyIndex == [n \in Namespaces |-> EmptyBag]

RECURSIVE SumOver(_, _)
SumOver(f, S) == IF S = {} THEN 0
                 ELSE LET x == CHOOSE y \in S : TRUE IN f[x] + SumOver(f, S \ {x})
NamespaceSize(idx, n) == SumOver(idx[n], Chunks)
IndexSize(idx) == SumOver([n \in Namespaces |-> NamespaceSize(idx, n)], Namespaces)

\* st.session_state.temp_namespaces: absent until first registered.
AbsentRegistry == [present |-> FALSE, list |-> << >>]

InSeq(x, seq) == \E i \in 1..Len(seq) : seq[i] = x

\* atexit.register(self._cleanup_temp_namespace, namespace), where self is
\* the engine of session s: one more callback, whether or not the same one
\* was registered before.
Registration(s, namespace) == [s |-> s, namespace |-> namespace]

\* _register_temp_session_cleanup without the membership test: the namespace
\* is appended on every call.
register_temp_session_cleanup_always_appends(tn, ax, s, namespace) ==
  [temp_namespaces |->
     [present |-> TRUE,
      list |-> Append(IF tn.present THEN tn.list ELSE << >>, namespace)],
   atexit |-> Append(ax, Registration(s, namespace))]

\* RAGSystem._register_temp_session_cleanup of the engine of session s
register_temp_session_cleanup(tn, ax, s, namespace) ==
  LET lst == IF tn.present THEN tn.list ELSE << >>
  IN [temp_namespaces |->
        [present |-> TRUE,
         list |-> IF InSeq(namespace, lst) THEN lst ELSE Append(lst, namespace)],
      atexit |-> Append(ax, Registration(s, namespace))]

\* Which backend call of _setup_pinecone_vectorstore raises.
SetupFailures ==
  {"none", "Pinecone", "list_indexes", "create_index", "PineconeVectorStore", "RetrievalQA"}

\* Lines 237-254 of _setup_pinecone_vectorstore: the vector store is bound
\* first, then the chain; when RetrievalQA.from_chain_type (or as_retriever)
\* raises, the new vector store stays and the chain is the one that was.
bind_vectorstore(eng, namespace, fail) ==
  IF fail = "PineconeVectorStore" THEN [eng |-> eng, ret |-> FALSE]
  ELSE IF fail = "RetrievalQA"
    THEN [eng |-> [eng EXCEPT !.vectorstore = namespace], ret |-> FALSE]
  ELSE [eng |-> [eng EXCEPT !.vectorstore = namespace, !.qa_chain = namespace],
        ret |-> TRUE]

\* Lines 196-221 of _setup_pinecone_vectorstore, up to the creation request
\* of pc.create_index: the index is looked up and, when absent, its creation
\* is requested.  `ok` says whether the call goes on, `created` whether it
\* requested the creation; index_status is what the service reports from
\* then on.  pc.create_index is called without a timeout, so it does not
\* return before the service reports the index ready (create_index_returns).
provision_index(status, fail) ==
  IF ~PINECONE_AVAILABLE \/ fail \in {"Pinecone", "list_indexes"}
       \/ (status = "absent" /\ fail = "create_index")
    THEN [index_status |-> status, ok |-> FALSE, created |-> FALSE]
  ELSE IF status = "absent"
    THEN [index_status |-> "initializing", ok |-> TRUE, created |-> TRUE]
  ELSE [index_status |-> status, ok |-> TRUE, created |-> FALSE]

\* pc.create_index(..., timeout=-1): it returns at once.
create_index_returns_at_once(status) == TRUE

\* pc.create_index(...) of lines 213-221 as it is called, without a timeout:
\* it returns only once the service reports the index ready.
create_index_returns(status) == status = "ready"

\* RAGSystem._setup_pinecone_vectorstore.  `ready` says whether the index
\* the call creates gets ready, so that pc.create_index returns; otherwise
\* the wait inside pc.create_index raises and the call returns False with
\* the index still initializing.
setup_pinecone_vectorstore(eng, namespace, status, fail, ready) ==
  LET p == provision_index(status, fail)
      b == bind_vectorstore(eng, namespace, fail)
  IN IF ~p.ok THEN [eng |-> eng, index_status |-> status, ret |-> FALSE]
     ELSE IF p.created /\ ~ready
       THEN [eng |-> eng, index_status |-> p.index_status, ret |-> FALSE]
     ELSE [eng |-> b.eng,
           index_status |-> IF p.created THEN "ready" ELSE p.index_status,
           ret |-> b.ret]

\* Lines 168-183 of setup_vectorstore: the namespace of the storage mode is
\* chosen, registered for cleanup when temporary, and made current.
select_namespace(eng, tn, ax, s, storage_mode, uuid) ==
  LET sid == IF storage_mode = "temporary" /\ eng.session_id = None
             THEN uuid ELSE eng.session_id
      namespace == IF storage_mode = "temporary" THEN TempNamespace(sid) ELSE PERSISTENT
      reg == IF storage_mode = "temporary"
             THEN register_temp_session_cleanup(tn, ax, s, namespace)
             ELSE [temp_namespaces |-> tn, atexit |-> ax]
  IN [eng |-> [eng EXCEPT !.session_id = sid, !.current_namespace = namespace],
      namespace |-> namespace,
      temp_namespaces |-> reg.temp_namespaces, atexit |-> reg.atexit]

\* RAGSystem.setup_vectorstore
setup_vectorstore(eng, tn, ax, s, status, storage_mode, uuid, fail, ready) ==
  LET n == select_namespace(eng, tn, ax, s, storage_mode, uuid)
      r == setup_pinecone_vectorstore(n.eng, n.namespace, status, fail, ready)
  IN [eng |-> r.eng, temp_namespaces |-> n.temp_namespaces, atexit |-> n.atexit,
      index_status |-> r.index_status, ret |-> r.ret]

\* RecursiveCharacterTextSplitter.split_documents: the chunks of each
\* document, in document order.
RECURSIVE split_documents(_)
split_documents(documents) ==
  IF documents = << >> THEN << >>
  ELSE LET d == Head(documents)
       IN [i \in 1..NumChunks(d) |-> <<d, i>>] \o split_documents(Tail(documents))

\* PineconeVectorStore.add_documents: one vector per chunk, written to the
\* namespace the store was built with.
RECURSIVE Upsert(_, _, _)
Upsert(idx, namespace, chunks) ==
  IF chunks = << >> THEN idx
  ELSE Upsert([idx EXCEPT ![namespace][Head(chunks)] = @ + 1], namespace, Tail(chunks))

\* The "Update sources" loop of add_documents_to_vectorstore; times[i] is the
\* reading of datetime.now() for the i-th document.
RECURSIVE UpdateSources(_, _, _)
UpdateSources(sources, documents, times) ==
  IF documents = << >> THEN sources
  ELSE LET source_info == [source |-> Metadata(Head(documents)).source,
                           type |-> Metadata(Head(documents)).type,
                           added_at |-> Head(times)]
       IN UpdateSources(IF InSeq(source_info, sources) THEN sources
                        ELSE Append(sources, source_info),
                        Tail(documents), Tail(times))

\* add_documents_to_vectorstore with the sources loop placed before the
\* vectorstore check.
add_documents_sources_first(eng, idx, status, documents, times, fail) ==
  IF documents = << >> THEN [eng |-> eng, index |-> idx, out |-> "warning", upserted |-> 0]
  ELSE
    LET eng1 == [eng EXCEPT !.sources = UpdateSources(eng.sources, documents, times)]
        split_docs == split_documents(documents)
        failAt == IF status # "ready" THEN 1 ELSE fail
    IN IF eng.vectorstore = None
         THEN [eng |-> eng1, index |-> idx, out |-> "error", upserted |-> 0]
       ELSE IF failAt > 0
         THEN [eng |-> eng1,
               index |-> Upsert(idx, eng.vectorstore, SubSeq(split_docs, 1, failAt - 1)),
               out |-> "error", upserted |-> failAt - 1]
       ELSE [eng |-> eng1, index |-> Upsert(idx, eng.vectorstore, split_docs),
             out |-> "success", upserted |-> Len(split_docs)]

\* RAGSystem.add_documents_to_vectorstore.  fail = 0: no backend call raises;
\* fail = i > 0: vectorstore.add_documents raises after i-1 chunks were
\* written.  An index that is not ready rejects the first upsert.
add_documents_to_vectorstore(eng, idx, status, documents, times, fail) ==
  IF documents = << >> THEN [eng |-> eng, index |-> idx, out |-> "warning", upserted |-> 0]
  ELSE IF eng.vectorstore = None
    THEN [eng |-> eng, index |-> idx, out |-> "error", upserted |-> 0]
  ELSE
    LET split_docs == split_documents(documents)
        failAt == IF status # "ready" THEN 1 ELSE fail
    IN IF failAt > 0
       THEN [eng |-> eng,
             index |-> Upsert(idx, eng.vectorstore, SubSeq(split_docs, 1, failAt - 1)),
             out |-> "error", upserted |-> failAt - 1]
       ELSE [eng |-> [eng EXCEPT !.sources = UpdateSources(eng.sources, documents, times)],
             index |-> Upsert(idx, eng.vectorstore, split_docs),
             out |-> "success", upserted |-> Len(split_docs)]

\* The vectors of the index, each with the namespace that holds it.
Vectors(idx) ==
  UNION {{[namespace |-> n, chunk |-> c, copy |-> i] : i \in 1..idx[n][c]} :
           n \in Namespaces, c \in Chunks}

Min(a, b) == IF a < b THEN a ELSE b

\* The retriever's similarity search: the k best-scoring vectors of one
\* namespace, best first.  The scores are the embedding model's, so every
\* ranking is possible.
Retrievals(idx, namespace, k) ==
  LET S == {v \in Vectors(idx) : v.namespace = namespace}
      m == Min(k, Cardinality(S))
  IN {[i \in 1..m |-> [namespace |-> f[i].namespace, chunk |-> f[i].chunk]] :
        f \in {g \in [1..m -> S] : \A i, j \in 1..m : i # j => g[i] # g[j]}}

QueryFailures == {"none", "retrieval", "generation"}
NoResult == [kind |-> "none", error |-> "", answer |-> "", source_documents |-> << >>]

\* query without the `if not self.qa_chain` guard: invoking None raises
\* inside the try block.
query_without_guard(eng, status, fail, retrieved) ==
  IF eng.qa_chain = None \/ fail = "retrieval" \/ status # "ready"
    THEN [ret |-> [NoResult EXCEPT !.kind = "error", !.error = "Query error"],
          calls |-> IF eng.qa_chain = None THEN {} ELSE {"retriever"}]
  ELSE [ret |-> [NoResult EXCEPT !.kind = "answer",
                   !.answer = IF fail = "generation" THEN "Error generating response"
                              ELSE "generated",
                   !.source_documents = retrieved],
        calls |-> {"retriever", "llm"}]

\* query without the try/except around qa_chain.invoke: a failing retrieval
\* propagates to the caller.
query_without_except(eng, status, fail, retrieved) ==
  IF eng.qa_chain = None
    THEN [ret |-> [NoResult EXCEPT !.kind = "error", !.error = "System not initialized"],
          calls |-> {}]
  ELSE IF fail = "retrieval" \/ status # "ready"
    THEN [ret |-> [NoResult EXCEPT !.kind = "raise"], calls |-> {"retriever"}]
  ELSE [ret |-> [NoResult EXCEPT !.kind = "answer",
                   !.answer = IF fail = "generation" THEN "Error generating response"
                              ELSE "generated",
                   !.source_documents = retrieved],
        calls |-> {"retriever", "llm"}]

\* RAGSystem.query (GeminiLLM._call turns an exception of the provider
\* into the returned text).
query(eng, status, fail, retrieved) ==
  IF eng.qa_chain = None
    THEN [ret |-> [NoResult EXCEPT !.kind = "error", !.error = "System not initialized"],
          calls |-> {}]
  ELSE IF fail = "retrieval" \/ status # "ready"
    THEN [ret |-> [NoResult EXCEPT !.kind = "error", !.error = "Query error"],
          calls |-> {"retriever"}]
  ELSE [ret |-> [NoResult EXCEPT !.kind = "answer",
                   !.answer = IF fail = "generation" THEN "Error generating response"
                              ELSE "generated",
                   !.source_documents = retrieved],
        calls |-> {"retriever", "llm"}]

\* The index.delete calls clear_database issues, in order; None stands for
\* the delete without a namespace.
ClearTargets(eng, tn, storage_mode) ==
  IF ~(eng.vectorstore # None /\ PINECONE_AVAILABLE) THEN << >>
  ELSE IF storage_mode = "temporary" THEN (IF tn.present THEN tn.list ELSE << >>)
  ELSE IF storage_mode = "permanent" THEN <<PERSISTENT>>
  ELSE IF eng.current_namespace # None THEN <<eng.current_namespace>>
  ELSE <<None>>

\* index.delete(delete_all=True, namespace=...) for each target in turn.
RECURSIVE DeleteAll(_, _)
DeleteAll(idx, targets) ==
  IF targets = << >> THEN idx
  ELSE DeleteAll(IF Head(targets) = None THEN EmptyIndex
                 ELSE [idx EXCEPT ![Head(targets)] = EmptyBag],
                 Tail(targets))

\* A reset that is not conditional at all.
ShouldReset_always(eng, storage_mode) == TRUE

\* The condition of the "Reset system state" block of clear_database.
ShouldReset(eng, storage_mode) ==
  storage_mode # "temporary"
    \/ (eng.current_namespace # None /\ startswith(eng.current_namespace, TEMP_PREFIX))

\* clear_database whose reset forgets the namespace and the sources but keeps
\* the vector store and the chain bound.
clear_database_keeps_store(eng, tn, idx, storage_mode, fail) ==
  LET connected == eng.vectorstore # None /\ PINECONE_AVAILABLE
      targets == ClearTargets(eng, tn, storage_mode)
      raised == connected /\ fail >= 1 /\ fail <= 1 + Len(targets)
      deleted == IF ~raised THEN targets
                 ELSE IF fail <= 2 THEN << >> ELSE SubSeq(targets, 1, fail - 2)
      reset == ~raised /\ ShouldReset(eng, storage_mode)
  IN [eng |-> IF reset
              THEN [eng EXCEPT !.sources = << >>, !.current_namespace = None]
              ELSE eng,
      temp_namespaces |-> IF connected /\ ~raised /\ storage_mode = "temporary" /\ tn.present
                          THEN [present |-> TRUE, list |-> << >>] ELSE tn,
      index |-> DeleteAll(idx, deleted),
      deleted |-> deleted, raised |-> raised, reset |-> reset]

\* RAGSystem.clear_database.  fail = 0: no backend call raises; fail = 1:
\* Pinecone()/pc.Index raises; fail = 1 + i: the i-th index.delete raises.
clear_database(eng, tn, idx, storage_mode, fail) ==
  LET connected == eng.vectorstore # None /\ PINECONE_AVAILABLE
      targets == ClearTargets(eng, tn, storage_mode)
      raised == connected /\ fail >= 1 /\ fail <= 1 + Len(targets)
      deleted == IF ~raised THEN targets
                 ELSE IF fail <= 2 THEN << >> ELSE SubSeq(targets, 1, fail - 2)
      reset == ~raised /\ ShouldReset(eng, storage_mode)
  IN [eng |-> IF reset
              THEN [eng EXCEPT !.vectorstore = None, !.qa_chain = None,
                               !.sources = << >>, !.current_namespace = None]
              ELSE eng,
      temp_namespaces |-> IF connected /\ ~raised /\ storage_mode = "temporary" /\ tn.present
                          THEN [present |-> TRUE, list |-> << >>] ELSE tn,
      index |-> DeleteAll(idx, deleted),
      deleted |-> deleted, raised |-> raised, reset |-> reset]

\* ------------------------------------------------------------------ state
\* What the last call was and what it returned: `ret` is the returned value
\* (setup: "True"/"False"; add: the message shown; query: the kind of result;
\* clear: "cleared"/"error"), `detail` the error or answer text of a query,
\* `docs` its source_documents, `calls` the collaborators a query called,
\* `prompt` the prompt the chain handed to the language model and
\* `deleted` the namespaces clear_database emptied.
NoPrompt == [context |-> << >>, question |-> << >>]
NoCall ==
  [op |-> "init", s |-> 0, arg |-> "", ret |-> "", detail |-> "", docs |-> << >>,
   calls |-> {}, prompt |-> NoPrompt, deleted |-> << >>]

\* The "stuff" chain of RetrievalQA.from_chain_type(chain_type="stuff"):
\* the page contents of all retrieved chunks, in the order retrieved, are
\* joined into the context of one prompt, followed by the question.
stuff_documents(retrieved, question) ==
  [context |-> [i \in 1..Len(retrieved) |-> retrieved[i].chunk], question |-> question]

\* The prompt of a query call: none unless the chain reached the model.
PromptOf(r, retrieved, question) ==
  IF "llm" \in r.calls THEN stuff_documents(retrieved, question) ELSE NoPrompt

\* Config: CHAT_HISTORY_ENABLED, MAX_CHAT_HISTORY_CONTEXT and FEEDBACK_ENABLED
\* as set when the environment gives no value.
DefaultConfig ==
  [CHAT_HISTORY_ENABLED |-> TRUE, MAX_CHAT_HISTORY_CONTEXT |-> 5, FEEDBACK_ENABLED |-> TRUE]

\* No chat input handled yet.
NoChatInput == [question |-> "", handled |-> "none", context |-> << >>, prompt |-> << >>]

\* The chat tab of each session as ChatTab.render initializes it.
NewChat(S) ==
  /\ messages = [s \in S |-> << >>]
  /\ feedback_data = [s \in S |-> << >>]
  /\ conversation_context = [s \in S |-> << >>]
  /\ show_feedback_form = [s \in S |-> {}]
  /\ chat_input = [s \in S |-> NoChatInput]
  /\ negative_recorded = [s \in S |-> FALSE]

\* No scrape_website call is running and no site is being served.
NoScrape == [phase |-> "idle"]
IdleScraper == web = << >> /\ scraper = NoScrape

\* The dimension of an index this code created (line 215), if it exists.
NoDimension == 0
DimensionOfIndex(status) == IF status = "absent" THEN NoDimension ELSE INDEX_DIMENSION

\* The dimension after a setup call that found the index in state `status`
\* and left it in state `status1`.
DimensionAfterSetup(status, status1, dimension) ==
  IF status = "absent" /\ status1 # "absent" THEN INDEX_DIMENSION ELSE dimension

\* No setup_vectorstore call is in progress.
NoSetupCall == [pc |-> "idle"]

\* Config.EMBEDDING_MODEL and Config.EMBEDDING_DEVICE as set when the
\* environment gives no value.
MINILM == "sentence-transformers/all-MiniLM-L6-v2"
DefaultEmbeddingConfig == [EMBEDDING_MODEL |-> MINILM, EMBEDDING_DEVICE |-> "cpu"]

\* embedding_strategies of RAGSystem._initialize_embeddings_robust;
\* "default" stands for model_kwargs without a device.
EmbeddingStrategies(cfg) ==
  <<[model_name |-> cfg.EMBEDDING_MODEL, device |-> cfg.EMBEDDING_DEVICE],
    [model_name |-> cfg.EMBEDDING_MODEL, device |-> "cpu"],
    [model_name |-> cfg.EMBEDDING_MODEL, device |-> "default"],
    [model_name |-> MINILM, device |-> "cpu"],
    [model_name |-> MINILM, device |-> "default"]>>

\* The embeddings of an engine whose first strategy initialized.
FirstStrategyEmbeddings(cfg) ==
  [committed |-> 1, strategy |-> EmbeddingStrategies(cfg)[1], attempts |-> <<1>>]

\* db_key of Sidebar._initialize_rag_system: f"pinecone_{storage_mode}".
DbKey(storage_mode) == <<"pinecone_", storage_mode>>

\* The sidebar has stored the session's engine for the permanent mode and its
\* last run went through.
IdleSidebar(S) ==
  /\ session_state = [s \in S |-> [has_rag_system |-> TRUE, db_key |-> DbKey("permanent")]]
  /\ sidebar = [s \in S |-> [storage_mode |-> "permanent", stopped |-> FALSE]]

\* A session before the first run of the script: st.session_state is empty
\* and the radio shows its first option.
NewSession(S) ==
  /\ session_state = [s \in S |-> [has_rag_system |-> FALSE, db_key |-> None]]
  /\ sidebar = [s \in S |-> [storage_mode |-> "permanent", stopped |-> FALSE]]

\* Every session holds an engine built with the default configuration and
\* no setup call is in progress.
IdleDeploy(S) ==
  /\ setup_call = [s \in S |-> NoSetupCall]
  /\ embedding_config = DefaultEmbeddingConfig
  /\ embeddings = [s \in S |-> FirstStrategyEmbeddings(DefaultEmbeddingConfig)]

Init ==
  /\ config = DefaultConfig /\ NewChat({1}) /\ IdleScraper /\ IdleDeploy({1}) /\ IdleSidebar({1})
  /\ PINECONE_AVAILABLE \in BOOLEAN
  /\ rag_system = [s \in {1} |-> NewRAGSystem]
  /\ setup_succeeded = [s \in {1} |-> FALSE]
  /\ temp_namespaces = [s \in {1} |-> AbsentRegistry]
  /\ atexit = << >>
  /\ index_status \in {"absent", "ready"}
  /\ index_dimension = DimensionOfIndex(index_status)
  /\ index = EmptyIndex
  /\ last = NoCall

\* The script of the session is not inside a setup_vectorstore call.
Idle(s) == setup_call[s].pc = "idle"

\* The construction of an engine and its embedding model.
MPNET == "sentence-transformers/all-mpnet-base-v2"
EmbeddingConfigs == [EMBEDDING_MODEL : {MINILM, MPNET}, EMBEDDING_DEVICE : {"cpu", "cuda"}]

\* No engine was constructed in the session yet.
NoEmbeddings == [committed |-> 0, strategy |-> None, attempts |-> << >>]

\* A loop that tries every strategy and keeps the last one that initialized.
RECURSIVE TryAllStrategies(_, _, _, _)
TryAllStrategies(strategies, outcomes, i, found) ==
  IF i >= Len(strategies)
    THEN [found EXCEPT !.raised = found.committed = 0,
                       !.attempts = [k \in 1..Len(strategies) |-> k]]
  ELSE TryAllStrategies(strategies, outcomes, i + 1,
                        IF outcomes[i + 1]
                          THEN [found EXCEPT !.committed = i + 1,
                                             !.strategy = strategies[i + 1]]
                        ELSE found)
initialize_embeddings_keep_trying(cfg, outcomes) ==
  TryAllStrategies(EmbeddingStrategies(cfg), outcomes, 0,
                   [raised |-> TRUE, committed |-> 0, strategy |-> None, attempts |-> << >>])

\* The for loop of _initialize_embeddings_robust from strategy i (counted
\* from 0) on; outcomes[i + 1] says whether HuggingFaceEmbeddings(...)
\* returns for strategy i.  `attempts` lists the strategies tried.
RECURSIVE TryStrategies(_, _, _, _)
TryStrategies(strategies, outcomes, i, attempts) ==
  IF i >= Len(strategies)
    THEN [raised |-> TRUE, committed |-> 0, strategy |-> None, attempts |-> attempts]
  ELSE IF outcomes[i + 1]
    THEN [raised |-> FALSE, committed |-> i + 1, strategy |-> strategies[i + 1],
          attempts |-> Append(attempts, i + 1)]
  ELSE IF i = Len(strategies) - 1
    THEN [raised |-> TRUE, committed |-> 0, strategy |-> None,
          attempts |-> Append(attempts, i + 1)]
  ELSE TryStrategies(strategies, outcomes, i + 1, Append(attempts, i + 1))

\* RAGSystem._initialize_embeddings_robust
initialize_embeddings_robust(cfg, outcomes) ==
  TryStrategies(EmbeddingStrategies(cfg), outcomes, 0, << >>)

Outcomes == [1..5 -> BOOLEAN]
FirstStrategyLoads == {outcomes \in Outcomes : outcomes[1]}

\* RAGSystem(api_key): the session's engine is replaced by a new instance;
\* when __init__ raises, nothing is assigned and the session keeps what it
\* had.
ConstructEngine(s, outcomes) ==
  /\ Idle(s)
  /\ \E r \in {initialize_embeddings_robust(embedding_config, outcomes)} :
       /\ rag_system' = IF r.raised THEN rag_system
                        ELSE [rag_system EXCEPT ![s] = NewRAGSystem]
       /\ setup_succeeded' = IF r.raised THEN setup_succeeded
                             ELSE [setup_succeeded EXCEPT ![s] = FALSE]
       /\ embeddings' = [embeddings EXCEPT ![s] =
                           IF r.raised THEN [@ EXCEPT !.attempts = r.attempts]
                           ELSE [committed |-> r.committed, strategy |-> r.strategy,
                                 attempts |-> r.attempts]]
       /\ last' = [NoCall EXCEPT !.op = "construct", !.s = s,
                                 !.ret = IF r.raised THEN "raise" ELSE "engine"]
  /\ UNCHANGED <<chat_vars, scraper_vars, sidebar_vars, setup_call, embedding_config, index_dimension,
                 PINECONE_AVAILABLE, temp_namespaces, atexit, index_status, index>>

\* A call of setup_vectorstore, up to its return or, when it has to create
\* the index, up to the creation request: the script of the session then
\* waits inside pc.create_index, and in the time.sleep(10) of line 227 after
\* it, while the backend and the scripts of other sessions go on.  What
\* fails from there on is chosen when the call goes on.
SetupVectorstore(s, storage_mode, uuid, fail) ==
  /\ Idle(s)
  /\ (storage_mode = "temporary" /\ rag_system[s].session_id = None)
       \/ uuid = CHOOSE u \in SessionIds : TRUE
  /\ \E n \in {select_namespace(rag_system[s], temp_namespaces[s], atexit, s,
                                storage_mode, uuid)},
        p \in {provision_index(index_status, fail)} :
     /\ p.created => fail = "none"
     /\ temp_namespaces' = [temp_namespaces EXCEPT ![s] = n.temp_namespaces]
     /\ Len(n.atexit) <= MaxRegistrations
     /\ atexit' = n.atexit
     /\ index_status' = p.index_status
     /\ index_dimension' = DimensionAfterSetup(index_status, p.index_status, index_dimension)
     /\ IF p.created
          THEN /\ rag_system' = [rag_system EXCEPT ![s] = n.eng]
               /\ setup_call' = [setup_call EXCEPT ![s] =
                                   [pc |-> "create_index", storage_mode |-> storage_mode]]
               /\ last' = [NoCall EXCEPT !.op = "setup_create", !.s = s,
                                         !.arg = storage_mode]
               /\ UNCHANGED setup_succeeded
          ELSE \E r \in {setup_vectorstore(rag_system[s], temp_namespaces[s], atexit, s,
                                           index_status, storage_mode, uuid, fail, TRUE)} :
               /\ rag_system' = [rag_system EXCEPT ![s] = r.eng]
               /\ setup_succeeded' = [setup_succeeded EXCEPT ![s] = @ \/ r.ret]
               /\ last' = [NoCall EXCEPT !.op = "setup", !.s = s, !.arg = storage_mode,
                                         !.ret = IF r.ret THEN "True" ELSE "False"]
               /\ UNCHANGED setup_call
  /\ UNCHANGED <<chat_vars, scraper_vars, sidebar_vars, embedding_config, embeddings,
                 PINECONE_AVAILABLE, index>>

SetupStep(s, storage_mode) ==
  \E uuid \in SessionIds, fail \in SetupFailures :
    SetupVectorstore(s, storage_mode, uuid, fail)

\* What can fail once the creation is requested: the wait inside
\* pc.create_index, or a call of lines 237-254.
WakeFailures == {"none", "create_index", "PineconeVectorStore", "RetrievalQA"}

\* pc.create_index returns to a call that requested the creation, the
\* index being ready (st.success of line 222), and the thread of the session
\* waits in the time.sleep(10) of line 227.
CreateIndexReturns(s) ==
  /\ setup_call[s].pc = "create_index"
  /\ create_index_returns(index_status)
  /\ setup_call' = [setup_call EXCEPT ![s].pc = "sleep"]
  /\ last' = [NoCall EXCEPT !.op = "setup_sleep", !.s = s,
                            !.arg = setup_call[s].storage_mode]
  /\ UNCHANGED <<chat_vars, scraper_vars, sidebar_vars, embedding_config, embeddings,
                 index_dimension, PINECONE_AVAILABLE, rag_system, setup_succeeded,
                 temp_namespaces, atexit, index_status, index>>

\* The end of a call that requested the creation of the index.  Either the
\* sleep of line 227 ends and the call binds the vector store and the chain
\* and returns; or the wait inside pc.create_index raises while the index is
\* not ready and the call returns False.
SetupWakes(s, fail) ==
  /\ IF fail = "create_index"
       THEN setup_call[s].pc = "create_index" /\ index_status = "initializing"
       ELSE setup_call[s].pc = "sleep"
  /\ \E b \in {IF fail = "create_index" THEN [eng |-> rag_system[s], ret |-> FALSE]
                ELSE bind_vectorstore(rag_system[s], rag_system[s].current_namespace,
                                      fail)} :
     /\ rag_system' = [rag_system EXCEPT ![s] = b.eng]
     /\ setup_succeeded' = [setup_succeeded EXCEPT ![s] = @ \/ b.ret]
     /\ last' = [NoCall EXCEPT !.op = "setup", !.s = s, !.arg = setup_call[s].storage_mode,
                               !.ret = IF b.ret THEN "True" ELSE "False",
                               !.calls = {"create_index"}]
  /\ setup_call' = [setup_call EXCEPT ![s] = NoSetupCall]
  /\ UNCHANGED <<chat_vars, scraper_vars, sidebar_vars, embedding_config, embeddings,
                 index_dimension, PINECONE_AVAILABLE, temp_namespaces, atexit,
                 index_status, index>>

\* The backing service finishes creating the index.
IndexBecomesReady ==
  /\ index_status = "initializing"
  /\ index_status' = "ready"
  /\ last' = [NoCall EXCEPT !.op = "index_ready"]
  /\ UNCHANGED <<chat_vars, scraper_vars, deploy_vars, sidebar_vars, PINECONE_AVAILABLE, rag_system, setup_succeeded, temp_namespaces,
                 atexit, index>>

\* The document lists handed to add_documents_to_vectorstore: none, one or two.
DocLists == {<< >>} \cup {<<d>> : d \in Docs} \cup {<<d, e>> : d \in Docs, e \in Docs}

\* `times` are the readings of datetime.now() at line 315, one per document;
\* the wall clock may step backwards between two readings.
AddDocuments(s, documents, times, fail) ==
  /\ Idle(s)
  /\ fail = 0 \/ (documents # << >> /\ rag_system[s].vectorstore # None)
  /\ \E r \in {add_documents_to_vectorstore(rag_system[s], index, index_status,
                                            documents, times, fail)} :
     /\ IndexSize(r.index) <= MaxVectors
     /\ rag_system' = [rag_system EXCEPT ![s] = r.eng]
     /\ index' = r.index
     /\ last' = [NoCall EXCEPT !.op = "add", !.s = s, !.ret = r.out]
     /\ UNCHANGED <<chat_vars, scraper_vars, deploy_vars, sidebar_vars, PINECONE_AVAILABLE, setup_succeeded, temp_namespaces, atexit,
                    index_status>>

AddStep(s, documents) ==
  \E times \in [1..Len(documents) -> 0..MaxTime],
     fail \in 0..Len(split_documents(documents)) :
    AddDocuments(s, documents, times, fail)

Query(s, question, fail, retrieved) ==
  /\ Idle(s)
  /\ \E r \in {query(rag_system[s], index_status, fail, retrieved)} :
     /\ last' = [NoCall EXCEPT !.op = "query", !.s = s, !.ret = r.ret.kind,
                               !.detail = IF r.ret.kind = "error" THEN r.ret.error
                                          ELSE r.ret.answer,
                               !.docs = r.ret.source_documents, !.calls = r.calls,
                               !.prompt = PromptOf(r, retrieved, <<question>>)]
     /\ UNCHANGED <<chat_vars, scraper_vars, deploy_vars, sidebar_vars, PINECONE_AVAILABLE, rag_system, setup_succeeded, temp_namespaces,
                    atexit, index_status, index>>

QueryStep(s) ==
  \E retrieved \in (IF rag_system[s].qa_chain = None THEN {<< >>}
                    ELSE Retrievals(index, rag_system[s].qa_chain, RETRIEVAL_K)) :
    \E question \in Questions, fail \in QueryFailures :
      Query(s, question, fail, retrieved)

ClearDatabase(s, storage_mode, fail) ==
  /\ Idle(s)
  /\ \E r \in {clear_database(rag_system[s], temp_namespaces[s], index, storage_mode, fail)} :
     /\ fail > 0 => r.raised
     /\ rag_system' = [rag_system EXCEPT ![s] = r.eng]
     /\ setup_succeeded' = [setup_succeeded EXCEPT ![s] = @ /\ ~r.reset]
     /\ temp_namespaces' = [temp_namespaces EXCEPT ![s] = r.temp_namespaces]
     /\ index' = r.index
     /\ last' = [NoCall EXCEPT !.op = "clear", !.s = s, !.arg = storage_mode,
                               !.ret = IF r.raised THEN "error" ELSE "cleared",
                               !.deleted = r.deleted]
     /\ UNCHANGED <<chat_vars, scraper_vars, deploy_vars, sidebar_vars, PINECONE_AVAILABLE, atexit, index_status>>

ClearStep(s, storage_mode) ==
  \E fail \in 0..Cardinality(SessionIds) + 1 : ClearDatabase(s, storage_mode, fail)

Next ==
  \/ \E s \in Sessions, outcomes \in FirstStrategyLoads : ConstructEngine(s, outcomes)
  \/ \E s \in Sessions, storage_mode \in StorageModes : SetupStep(s, storage_mode)
  \/ \E s \in Sessions : CreateIndexReturns(s)
  \/ \E s \in Sessions, fail \in WakeFailures : SetupWakes(s, fail)
  \/ IndexBecomesReady
  \/ \E s \in Sessions, documents \in DocLists : AddStep(s, documents)
  \/ \E s \in Sessions : QueryStep(s)
  \/ \E s \in Sessions, storage_mode \in Scopes : ClearStep(s, storage_mode)

Spec == Init /\ [][Next]_vars

\* ================================================================= claims
\* The engine holds no vector store, no chain and no active namespace.
Uninitialized(eng) ==
  eng.vectorstore = None /\ eng.qa_chain = None /\ eng.current_namespace = None

\* The in-memory state clear_database resets to.
EngineReset(eng) == Uninitialized(eng) /\ eng.sources = << >>

\* The namespaces a clear_database scope names.
ScopeNamespaces(s, storage_mode) ==
  IF storage_mode = "temporary"
    THEN {temp_namespaces[s].list[i] : i \in 1..Len(temp_namespaces[s].list)}
  ELSE IF storage_mode = "permanent" THEN {PERSISTENT}
  ELSE {rag_system[s].current_namespace} \ {None}

\* C1: on an engine whose setup never succeeded, or that clear_database has
\* reset since, every query returns the error "System not initialized",
\* calls neither the retriever nor the language model and changes nothing of
\* the engine, the registry or the index.
C1_QueryNotInitialized ==
  [][\A s \in Sessions :
       (last'.op = "query" /\ QueryStep(s) /\ ~setup_succeeded[s]) =>
         /\ last'.ret = "error" /\ last'.detail = "System not initialized"
         /\ last'.calls = {}
         /\ rag_system' = rag_system /\ index' = index
         /\ temp_namespaces' = temp_namespaces]_vars

\* C1 witness: a query was rejected on an engine that is not set up while the
\* index holds vectors ingested earlier.
C1_Witness ==
  /\ last.op = "query" /\ last.detail = "System not initialized"
  /\ ~setup_succeeded[last.s]
  /\ IndexSize(index) > 0

\* C2 (as claimed): a setup_vectorstore call that returns False on an engine
\* with no active namespace leaves vectorstore, qa_chain and current_namespace
\* None.
C2_FailedSetupStaysUninitialized ==
  [][\A s \in Sessions, storage_mode \in StorageModes :
       (last'.op = "setup" /\ SetupStep(s, storage_mode) /\ Uninitialized(rag_system[s]) /\ last'.ret = "False")
         => Uninitialized(rag_system'[s])]_vars

\* C3 (as claimed): in every reachable state each engine either has no active
\* namespace (vectorstore, qa_chain and current_namespace all None) or
\* current_namespace is the namespace its vector store and retriever are
\* bound to.
C3_OneActiveNamespace ==
  \A s \in Sessions :
    \/ Uninitialized(rag_system[s])
    \/ /\ rag_system[s].current_namespace # None
       /\ rag_system[s].vectorstore = rag_system[s].current_namespace
       /\ rag_system[s].qa_chain = rag_system[s].current_namespace

\* C4 (as claimed): after every clear_database call, except scope "temporary"
\* while the active namespace is persistent, the in-memory state is reset.
C4_ClearAlwaysResets ==
  [][\A s \in Sessions, storage_mode \in Scopes :
       (/\ last'.op = "clear" /\ ClearStep(s, storage_mode)
        /\ ~(storage_mode = "temporary" /\ rag_system[s].current_namespace = PERSISTENT))
         => EngineReset(rag_system'[s])]_vars

\* C5: clear_database("temporary") while current_namespace is persistent
\* leaves the engine's in-memory state as it was, leaves the persistent
\* namespace untouched and changes only namespaces registered in the session,
\* which it empties (all of them when no backend call raises).
C5_ClearTemporaryKeepsPersistentEngine ==
  [][\A s \in Sessions :
       (last'.op = "clear" /\ ClearStep(s, "temporary") /\ rag_system[s].current_namespace = PERSISTENT) =>
         /\ rag_system'[s] = rag_system[s]
         /\ index'[PERSISTENT] = index[PERSISTENT]
         /\ \A n \in Namespaces :
              index'[n] # index[n] =>
                (n \in ScopeNamespaces(s, "temporary") /\ index'[n] = EmptyBag)
         /\ (last'.ret = "cleared" /\ rag_system[s].vectorstore # None)
              => \A n \in ScopeNamespaces(s, "temporary") : index'[n] = EmptyBag]_vars

\* C5 witness: a READY engine on the persistent namespace has cleared a
\* registered temporary namespace and is still READY, with its sources.
C5_Witness ==
  /\ last.op = "clear" /\ last.arg = "temporary" /\ last.ret = "cleared"
  /\ last.deleted # << >>
  /\ rag_system[last.s].current_namespace = PERSISTENT
  /\ rag_system[last.s].qa_chain = PERSISTENT
  /\ rag_system[last.s].sources # << >>
  /\ index[PERSISTENT] # EmptyBag

\* C6 (as claimed): every clear_database call empties exactly the namespaces
\* of its scope (the current namespace, the registered temporary namespaces,
\* or "persistent") and leaves all other namespaces as they were.
C6_ClearDeletesScope ==
  [][\A s \in Sessions, storage_mode \in Scopes :
       (last'.op = "clear" /\ ClearStep(s, storage_mode)) =>
         index' = [n \in Namespaces |->
                     IF n \in ScopeNamespaces(s, storage_mode) THEN EmptyBag
                     ELSE index[n]]]_vars

\* The (source, type) pair of a document is already in the sources list.
Catalogued(sources, d) ==
  \E j \in 1..Len(sources) :
    sources[j].source = Metadata(d).source /\ sources[j].type = Metadata(d).type

\* C7 (as claimed): adding documents whose (source, type) pairs are all in the
\* sources list already leaves the list as it was.
C7_DedupBySourceAndType ==
  [][\A s \in Sessions, documents \in DocLists :
       (/\ last'.op = "add" /\ AddStep(s, documents)
        /\ documents # << >>
        /\ \A i \in 1..Len(documents) : Catalogued(rag_system[s].sources, documents[i]))
         => rag_system'[s].sources = rag_system[s].sources]_vars

\* C8: add_documents_to_vectorstore called with an empty list, or on an
\* engine whose vectorstore is None, returns after a warning or an error
\* message and changes neither the engine nor the index.
C8_AddIsNoOpWithoutPrecondition ==
  [][\A s \in Sessions, documents \in DocLists :
       (last'.op = "add" /\ AddStep(s, documents) /\ (documents = << >> \/ rag_system[s].vectorstore = None))
         => /\ last'.ret = (IF documents = << >> THEN "warning" ELSE "error")
            /\ rag_system' = rag_system
            /\ index' = index]_vars

\* C8 witness: documents were handed to an engine that is not set up.
C8_Witness ==
  /\ last.op = "add" /\ last.ret = "error"
  /\ rag_system[last.s].vectorstore = None

\* C9: on an engine that is READY a query returns an answer with its source
\* documents or an error, never raises, and leaves the engine as it was.
C9_QueryNeverRaises ==
  [][\A s \in Sessions :
       (last'.op = "query" /\ QueryStep(s) /\ rag_system[s].qa_chain # None) =>
         /\ last'.ret \in {"answer", "error"}
         /\ last'.ret = "error" => last'.docs = << >>
         /\ rag_system' = rag_system
         /\ rag_system'[s].qa_chain # None]_vars

\* C9 witness: a query failed in the backend on a READY engine.
C9_Witness ==
  /\ last.op = "query" /\ last.ret = "error" /\ last.detail = "Query error"
  /\ rag_system[last.s].qa_chain # None

\* C10 (as claimed): the chunks a query returns all come from the namespace
\* that is the engine's active namespace at query time.
C10_QueryReturnsActiveNamespaceOnly ==
  (last.op = "query" /\ last.ret = "answer") =>
    \A i \in 1..Len(last.docs) :
      last.docs[i].namespace = rag_system[last.s].current_namespace

\* ============================================================ two sessions
\* RAGSystem._cleanup_temp_namespace, the callback atexit runs for a
\* registered namespace; an exception of the backend is swallowed.
cleanup_temp_namespace(idx, namespace, fail) ==
  IF PINECONE_AVAILABLE /\ startswith(namespace, TEMP_PREFIX) /\ ~fail
    THEN [index |-> DeleteAll(idx, <<namespace>>), raised |-> FALSE]
  ELSE [index |-> idx, raised |-> FALSE]

\* The process exits and atexit runs the callback registered last among
\* those still to run: callbacks of engines their session no longer holds
\* are run as well, and a callback registered twice runs twice.
CleanupTempNamespace(s, namespace, fail) ==
  /\ atexit # << >>
  /\ atexit[Len(atexit)] = Registration(s, namespace)
  /\ atexit' = SubSeq(atexit, 1, Len(atexit) - 1)
  /\ \E r \in {cleanup_temp_namespace(index, namespace, fail)} :
       /\ index' = r.index
       /\ last' = [NoCall EXCEPT !.op = "cleanup", !.s = s,
                                 !.ret = IF r.raised THEN "raised" ELSE "returned",
                                 !.deleted = IF r.index # index THEN <<namespace>>
                                             ELSE << >>]
  /\ UNCHANGED <<chat_vars, scraper_vars, deploy_vars, sidebar_vars, PINECONE_AVAILABLE, rag_system, setup_succeeded, temp_namespaces,
                 index_status>>

\* Two browser sessions of one Streamlit process, each with its own
\* RAGSystem and its own st.session_state, sharing the index.
InitTwo ==
  /\ config = DefaultConfig /\ NewChat({1, 2}) /\ IdleScraper /\ IdleDeploy({1, 2}) /\ IdleSidebar({1, 2})
  /\ PINECONE_AVAILABLE \in BOOLEAN
  /\ rag_system = [s \in {1, 2} |-> NewRAGSystem]
  /\ setup_succeeded = [s \in {1, 2} |-> FALSE]
  /\ temp_namespaces = [s \in {1, 2} |-> AbsentRegistry]
  /\ atexit = << >>
  /\ index_status \in {"absent", "ready"}
  /\ index_dimension = DimensionOfIndex(index_status)
  /\ index = EmptyIndex
  /\ last = NoCall

\* Both sessions work in temporary mode; once the process is exiting only
\* atexit callbacks run.
NextTwo ==
  \/ last.op # "cleanup" /\ \E s \in Sessions : SetupStep(s, "temporary")
  \/ last.op # "cleanup" /\ \E s \in Sessions : CreateIndexReturns(s)
  \/ last.op # "cleanup" /\ \E s \in Sessions, fail \in WakeFailures : SetupWakes(s, fail)
  \/ last.op # "cleanup" /\ IndexBecomesReady
  \/ last.op # "cleanup" /\ \E s \in Sessions, documents \in DocLists : AddStep(s, documents)
  \/ last.op # "cleanup" /\ \E s \in Sessions : QueryStep(s)
  \/ last.op # "cleanup" /\ \E s \in Sessions, storage_mode \in {NoScope, "temporary"} :
                              ClearStep(s, storage_mode)
  \/ \E s \in Sessions, namespace \in Namespaces, fail \in BOOLEAN :
       CleanupTempNamespace(s, namespace, fail)

SpecTwo == InitTwo /\ [][NextTwo]_vars

\* The temporary namespaces that belong to session t: the one its engine
\* names or is bound to and the ones in its registry.
OwnNamespaces(t) ==
  ({rag_system[t].current_namespace, rag_system[t].vectorstore}
     \cup {temp_namespaces[t].list[i] : i \in 1..Len(temp_namespaces[t].list)})
  \ {None, PERSISTENT}

\* C11 (as claimed): with two sessions in temporary mode the two active
\* namespaces are distinct, and no operation of one session (setup, add,
\* query, clear_database, exit cleanup) changes the other session's engine or
\* registry, changes the vectors of a temporary namespace of the other
\* session, or returns chunks read from one.
C11_SessionsIsolated ==
  [][\A s \in Sessions, t \in Sessions :
       (s # t /\ last'.s = s /\ last'.op \in {"setup", "add", "query", "clear", "cleanup"}) =>
         /\ rag_system'[s].current_namespace # None
              => rag_system'[s].current_namespace # rag_system'[t].current_namespace
         /\ rag_system'[t] = rag_system[t]
         /\ temp_namespaces'[t] = temp_namespaces[t]
         /\ \A n \in OwnNamespaces(t) : index'[n] = index[n]
         /\ last'.op = "query" =>
              \A i \in 1..Len(last'.docs) : last'.docs[i].namespace \notin OwnNamespaces(t)]_vars

\* C11, for sessions whose session ids differ: the same isolation, which the
\* code does provide as long as the two truncated uuid4 values are not equal.
C11_IsolatedWhenIdsDiffer ==
  [][\A s \in Sessions, t \in Sessions :
       (/\ s # t /\ last'.s = s
        /\ last'.op \in {"setup", "add", "query", "clear", "cleanup"}
        /\ rag_system'[s].session_id # rag_system'[t].session_id) =>
         /\ rag_system'[s].current_namespace # None
              => rag_system'[s].current_namespace # rag_system'[t].current_namespace
         /\ rag_system'[t] = rag_system[t]
         /\ temp_namespaces'[t] = temp_namespaces[t]
         /\ \A n \in OwnNamespaces(t) : index'[n] = index[n]
         /\ last'.op = "query" =>
              \A i \in 1..Len(last'.docs) : last'.docs[i].namespace \notin OwnNamespaces(t)]_vars

\* ================================================================ chat tab
\* A text is a sequence of string pieces.  A line of the conversation
\* context or of a prompt is a label followed by texts joined with "; ",
\* each cut to its first `cut` characters (cut = 0: not cut).
Line(label, texts, cut) == [label |-> label, texts |-> texts, cut |-> cut]

IMPROVEMENT_NOTE ==
  "*This response incorporates improvements based on your previous feedback.*"
Absent == "absent"                      \* a key the dict does not have
Ratings == {"positive", "negative"}
FeedbackTexts == {"c1"}
Prompts == {"q1"}                       \* what the user types into st.chat_input
WindowSizes == 0..MaxWindow

\* Python's lst[-k:] and lst[:k] for k >= 0.
PySuffix(lst, k) ==
  IF k = 0 \/ k >= Len(lst) THEN lst ELSE SubSeq(lst, Len(lst) - k + 1, Len(lst))
PyPrefix(lst, k) == IF k >= Len(lst) THEN lst ELSE SubSeq(lst, 1, k)

UserMessage(prompt) == [role |-> "user", content |-> <<prompt>>]
AssistantMessage(content, sources, prompt, used_context) ==
  [role |-> "assistant", content |-> content, sources |-> sources,
   original_query |-> prompt, used_context |-> used_context]

\* The history line _build_conversation_context writes for a message.
HistoryLine(msg) ==
  IF msg.role = "user" THEN Line("User: ", <<msg.content>>, 0)
  ELSE Line("Assistant: ", <<msg.content>>, 200)

\* The contents of the rated messages, in the order of the feedback dict.
Patterns(msgs, fb, rating) ==
  LET rated == SelectSeq(fb, LAMBDA e : e.message_index < Len(msgs) /\ e.rating = rating)
  IN [i \in 1..Len(rated) |-> msgs[rated[i].message_index + 1].content]

\* A context builder that lists the whole transcript whatever the history
\* switch says.
build_conversation_context_ignoring_switch(msgs, fb) ==
  [i \in 1..Len(msgs) |-> HistoryLine(msgs[i])]

\* ChatTab._build_conversation_context: the context parts, which "\n".join
\* turns into the context string (empty exactly when there is no part).
build_conversation_context(msgs, fb) ==
  IF ~config.CHAT_HISTORY_ENABLED THEN << >>
  ELSE
    LET recent_messages == PySuffix(msgs, config.MAX_CHAT_HISTORY_CONTEXT * 2)
        history == IF recent_messages = << >> THEN << >>
                   ELSE <<Line("Previous conversation context:", << >>, 0)>>
                        \o [i \in 1..Len(recent_messages) |-> HistoryLine(recent_messages[i])]
        positive_patterns == Patterns(msgs, fb, "positive")
        negative_patterns == Patterns(msgs, fb, "negative")
        insights ==
          IF config.FEEDBACK_ENABLED /\ fb # << >>
             /\ (positive_patterns # << >> \/ negative_patterns # << >>)
          THEN <<Line("Feedback insights:", << >>, 0)>>
               \o (IF positive_patterns = << >> THEN << >>
                   ELSE <<Line("User appreciated responses like: ",
                               PyPrefix(positive_patterns, 2), 100)>>)
               \o (IF negative_patterns = << >> THEN << >>
                   ELSE <<Line("User wanted better responses for: ",
                               PyPrefix(negative_patterns, 2), 100)>>)
          ELSE << >>
    IN history \o insights

\* The prompt that is the user's question and nothing else.
RawPrompt(user_query) == <<Line("", <<<<user_query>>>>, 0)>>

\* ChatTab._create_enhanced_prompt
create_enhanced_prompt(user_query, context) ==
  IF context = << >> THEN RawPrompt(user_query)
  ELSE context
       \o <<Line("Current question: ", <<<<user_query>>>>, 0),
            Line("Please provide a response that:", << >>, 0)>>

\* ChatTab._post_process_answer
post_process_answer(answer, fb) ==
  IF ~config.FEEDBACK_ENABLED \/ fb = << >> THEN answer
  ELSE IF \E i \in 1..Len(fb) : fb[i].rating = "negative"
    THEN answer \o <<IMPROVEMENT_NOTE>>
  ELSE answer

\* ChatTab._update_conversation_context
update_conversation_context(cc, user_query, response) ==
  LET cc1 == Append(cc, [query |-> user_query, response |-> response, cut |-> 300])
  IN IF Len(cc1) > config.MAX_CHAT_HISTORY_CONTEXT
       THEN PySuffix(cc1, config.MAX_CHAT_HISTORY_CONTEXT)
     ELSE cc1

\* The orders list(set(...)) can give the distinct sources of the retrieved
\* chunks.
SourceLists(retrieved) ==
  LET S == {Metadata(retrieved[i].chunk[1]).source : i \in 1..Len(retrieved)}
      n == Cardinality(S)
  IN {f \in [1..n -> S] : \A i, j \in 1..n : i # j => f[i] # f[j]}

\* dict[key] = value: a new key goes last, an existing key keeps its place.
DictSet(fb, value) ==
  IF \E i \in 1..Len(fb) : fb[i].message_index = value.message_index
    THEN [i \in 1..Len(fb) |->
            IF fb[i].message_index = value.message_index THEN value ELSE fb[i]]
  ELSE Append(fb, value)

\* ChatTab._store_feedback: the entry of the message is replaced by one that
\* holds the rating only.
store_feedback(fb, message_index, rating) ==
  DictSet(fb, [message_index |-> message_index, rating |-> rating,
               detailed_feedback |-> Absent])

\* The "Save Feedback" button of ChatTab._render_feedback_form.
save_feedback(fb, message_index, feedback_text) ==
  IF \E i \in 1..Len(fb) : fb[i].message_index = message_index
    THEN [i \in 1..Len(fb) |->
            IF fb[i].message_index = message_index
              THEN [fb[i] EXCEPT !.detailed_feedback = feedback_text] ELSE fb[i]]
  ELSE Append(fb, [message_index |-> message_index, rating |-> Absent,
                   detailed_feedback |-> feedback_text])

\* _handle_chat_input with the user message appended before the context is
\* built.
handle_chat_input_append_first(eng, msgs, fb, cc, prompt, result, sources) ==
  IF eng.vectorstore = None
    THEN [messages |-> msgs, conversation_context |-> cc, handled |-> "no data",
          queried |-> FALSE, context |-> << >>, prompt |-> << >>]
  ELSE
    LET msgs1 == Append(msgs, UserMessage(prompt))
        context == build_conversation_context(msgs1, fb)
        enhanced_prompt == create_enhanced_prompt(prompt, context)
    IN IF result.kind = "error"
         THEN [messages |-> msgs1, conversation_context |-> cc, handled |-> "error",
               queried |-> TRUE, context |-> context, prompt |-> enhanced_prompt]
       ELSE
         LET processed_answer == post_process_answer(<<result.answer>>, fb)
         IN [messages |-> Append(msgs1, AssistantMessage(processed_answer, sources, prompt,
                                                         context # << >>)),
             conversation_context |-> update_conversation_context(cc, prompt, processed_answer),
             handled |-> "answer", queried |-> TRUE,
             context |-> context, prompt |-> enhanced_prompt]

\* ChatTab._handle_chat_input for one submitted prompt; `result` is what
\* rag_system.query returns and `sources` the order list(set(...)) gives.
\* handled: "no data" (rejected before the query), "error" or "answer".
handle_chat_input(eng, msgs, fb, cc, prompt, result, sources) ==
  IF eng.vectorstore = None
    THEN [messages |-> msgs, conversation_context |-> cc, handled |-> "no data",
          queried |-> FALSE, context |-> << >>, prompt |-> << >>]
  ELSE
    LET context == build_conversation_context(msgs, fb)
        enhanced_prompt == create_enhanced_prompt(prompt, context)
        msgs1 == Append(msgs, UserMessage(prompt))
    IN IF result.kind = "error"
         THEN [messages |-> msgs1, conversation_context |-> cc, handled |-> "error",
               queried |-> TRUE, context |-> context, prompt |-> enhanced_prompt]
       ELSE
         LET processed_answer == post_process_answer(<<result.answer>>, fb)
         IN [messages |-> Append(msgs1, AssistantMessage(processed_answer, sources, prompt,
                                                         context # << >>)),
             conversation_context |-> update_conversation_context(cc, prompt, processed_answer),
             handled |-> "answer", queried |-> TRUE,
             context |-> context, prompt |-> enhanced_prompt]

\* A question is submitted through st.chat_input.
ChatInput(s, prompt, fail, retrieved, sources) ==
  /\ Idle(s)
  /\ Len(messages[s]) + 2 <= MaxMessages
  /\ \E r \in {query(rag_system[s], index_status, fail, retrieved)} :
     \E h \in {handle_chat_input(rag_system[s], messages[s], feedback_data[s],
                                 conversation_context[s], prompt, r.ret, sources)} :
       /\ sources \in (IF h.handled = "answer" THEN SourceLists(retrieved) ELSE {<< >>})
       /\ h.queried \/ fail = "none"
       /\ messages' = [messages EXCEPT ![s] = h.messages]
       /\ conversation_context' = [conversation_context EXCEPT ![s] = h.conversation_context]
       /\ chat_input' = [chat_input EXCEPT ![s] =
                           [question |-> prompt, handled |-> h.handled,
                            context |-> h.context, prompt |-> h.prompt]]
       /\ last' = IF h.queried
                  THEN [NoCall EXCEPT !.op = "query", !.s = s, !.ret = r.ret.kind,
                                      !.detail = IF r.ret.kind = "error" THEN r.ret.error
                                                 ELSE r.ret.answer,
                                      !.docs = r.ret.source_documents, !.calls = r.calls,
                                      !.prompt = PromptOf(r, retrieved, h.prompt)]
                  ELSE last
  /\ UNCHANGED <<config, feedback_data, show_feedback_form, negative_recorded, scraper_vars, deploy_vars, sidebar_vars,
                 PINECONE_AVAILABLE, rag_system, setup_succeeded, temp_namespaces,
                 atexit, index_status, index>>

ChatStep(s, prompt) ==
  \E retrieved \in (IF rag_system[s].qa_chain = None THEN {<< >>}
                    ELSE Retrievals(index, rag_system[s].qa_chain, RETRIEVAL_K)) :
    \E fail \in QueryFailures, sources \in {<< >>} \cup SourceLists(retrieved) :
      ChatInput(s, prompt, fail, retrieved, sources)

\* The feedback buttons are drawn under every assistant message.
HasFeedbackButtons(s, message_index) ==
  /\ message_index < Len(messages[s])
  /\ messages[s][message_index + 1].role = "assistant"

\* The like or dislike button of a message is pressed.
StoreFeedback(s, message_index, rating) ==
  /\ HasFeedbackButtons(s, message_index)
  /\ feedback_data' = [feedback_data EXCEPT ![s] = store_feedback(@, message_index, rating)]
  /\ negative_recorded' = [negative_recorded EXCEPT ![s] = @ \/ rating = "negative"]
  /\ UNCHANGED <<config, messages, conversation_context, show_feedback_form, chat_input,
                 scraper_vars, deploy_vars, sidebar_vars, PINECONE_AVAILABLE, rag_system, setup_succeeded,
                 temp_namespaces, atexit, index_status, index, last>>

\* The detail button of a message opens its feedback form.
ShowFeedbackForm(s, message_index) ==
  /\ HasFeedbackButtons(s, message_index)
  /\ Cardinality(show_feedback_form[s] \cup {message_index}) <= MaxOpenForms
  /\ show_feedback_form' = [show_feedback_form EXCEPT ![s] = @ \cup {message_index}]
  /\ UNCHANGED <<config, messages, feedback_data, conversation_context, chat_input,
                 negative_recorded,
                 scraper_vars, deploy_vars, sidebar_vars, PINECONE_AVAILABLE, rag_system, setup_succeeded,
                 temp_namespaces, atexit, index_status, index, last>>

\* "Save Feedback" in the open form of a message.
SaveFeedback(s, message_index, feedback_text) ==
  /\ HasFeedbackButtons(s, message_index)
  /\ message_index \in show_feedback_form[s]
  /\ feedback_data' = [feedback_data EXCEPT ![s] = save_feedback(@, message_index, feedback_text)]
  /\ show_feedback_form' = [show_feedback_form EXCEPT ![s] = @ \ {message_index}]
  /\ UNCHANGED <<config, messages, conversation_context, chat_input, negative_recorded,
                 scraper_vars, deploy_vars, sidebar_vars, PINECONE_AVAILABLE, rag_system, setup_succeeded,
                 temp_namespaces, atexit, index_status, index, last>>

\* "Cancel" in the open form of a message.
CancelFeedback(s, message_index) ==
  /\ HasFeedbackButtons(s, message_index)
  /\ message_index \in show_feedback_form[s]
  /\ show_feedback_form' = [show_feedback_form EXCEPT ![s] = @ \ {message_index}]
  /\ UNCHANGED <<config, messages, feedback_data, conversation_context, chat_input,
                 negative_recorded,
                 scraper_vars, deploy_vars, sidebar_vars, PINECONE_AVAILABLE, rag_system, setup_succeeded,
                 temp_namespaces, atexit, index_status, index, last>>

\* A "Clear Chat" button that leaves the feedback map as it is.
ClearChat_keeps_feedback(s) ==
  /\ messages' = [messages EXCEPT ![s] = << >>]
  /\ conversation_context' = [conversation_context EXCEPT ![s] = << >>]
  /\ negative_recorded' = [negative_recorded EXCEPT ![s] = FALSE]
  /\ UNCHANGED <<config, feedback_data, show_feedback_form, chat_input,
                 scraper_vars, deploy_vars, sidebar_vars, PINECONE_AVAILABLE, rag_system, setup_succeeded,
                 temp_namespaces, atexit, index_status, index, last>>

\* The "Clear Chat" button.
ClearChat(s) ==
  /\ messages' = [messages EXCEPT ![s] = << >>]
  /\ feedback_data' = [feedback_data EXCEPT ![s] = << >>]
  /\ conversation_context' = [conversation_context EXCEPT ![s] = << >>]
  /\ negative_recorded' = [negative_recorded EXCEPT ![s] = FALSE]
  /\ UNCHANGED <<config, show_feedback_form, chat_input,
                 scraper_vars, deploy_vars, sidebar_vars, PINECONE_AVAILABLE, rag_system, setup_succeeded,
                 temp_namespaces, atexit, index_status, index, last>>

\* An engine after a successful setup_vectorstore("permanent").
ReadyPersistent ==
  [NewRAGSystem EXCEPT !.vectorstore = PERSISTENT, !.qa_chain = PERSISTENT,
                       !.current_namespace = PERSISTENT]

\* One session with its chat tab; the engine is not set up, or is set up on
\* the persistent namespace, which holds the chunks of a document ingested
\* earlier.  The chat settings are any the environment can give.
InitChat ==
  /\ config \in [CHAT_HISTORY_ENABLED : BOOLEAN, MAX_CHAT_HISTORY_CONTEXT : WindowSizes,
                 FEEDBACK_ENABLED : BOOLEAN]
  /\ NewChat({1}) /\ IdleScraper /\ IdleDeploy({1}) /\ IdleSidebar({1})
  /\ PINECONE_AVAILABLE = TRUE
  /\ \E ready \in BOOLEAN :
       /\ rag_system = [s \in {1} |-> IF ready THEN ReadyPersistent ELSE NewRAGSystem]
       /\ setup_succeeded = [s \in {1} |-> ready]
  /\ temp_namespaces = [s \in {1} |-> AbsentRegistry]
  /\ atexit = << >>
  /\ index_status = "ready"
  /\ index_dimension = DimensionOfIndex(index_status)
  /\ index \in {Upsert(EmptyIndex, PERSISTENT, split_documents(<<d>>)) : d \in Docs}
  /\ last = NoCall

NextChat ==
  \/ \E s \in Sessions, prompt \in Prompts : ChatStep(s, prompt)
  \/ \E s \in Sessions, i \in 0..MaxMessages - 1, rating \in Ratings : StoreFeedback(s, i, rating)
  \/ \E s \in Sessions, i \in 0..MaxMessages - 1 : ShowFeedbackForm(s, i)
  \/ \E s \in Sessions, i \in 0..MaxMessages - 1, feedback_text \in FeedbackTexts :
       SaveFeedback(s, i, feedback_text)
  \/ \E s \in Sessions, i \in 0..MaxMessages - 1 : CancelFeedback(s, i)
  \/ \E s \in Sessions : ClearChat(s)

SpecChat == InitChat /\ [][NextChat]_vars

\* C12 (as claimed): every question submitted through the chat input adds one
\* user turn for the question and one assistant turn for the response to the
\* message list, also when the query returns an error and when the engine is
\* not initialized.
C12_TranscriptComplete ==
  [][\A s \in Sessions, prompt \in Prompts :
       ChatStep(s, prompt) =>
         /\ Len(messages'[s]) = Len(messages[s]) + 2
         /\ SubSeq(messages'[s], 1, Len(messages[s])) = messages[s]
         /\ messages'[s][Len(messages[s]) + 1] = UserMessage(prompt)
         /\ messages'[s][Len(messages[s]) + 2].role = "assistant"]_vars

\* The lines of a context that stand for turns of the transcript.
HistoryLines(context) ==
  SelectSeq(context, LAMBDA l : l.label \in {"User: ", "Assistant: "})
UserLines(context) == SelectSeq(context, LAMBDA l : l.label = "User: ")
AssistantLines(context) == SelectSeq(context, LAMBDA l : l.label = "Assistant: ")
UserTurns(msgs) == SelectSeq(msgs, LAMBDA m : m.role = "user")

\* C13: the context and the enhanced prompt of a chat input are built from
\* the message list as it is before the user turn is appended: the context
\* is the one of the earlier turns, its history lines are lines of earlier
\* turns in their order, and it has no more user lines than there were user
\* turns before the input.
C13_ContextBeforeAppend ==
  [][\A s \in Sessions, prompt \in Prompts :
       (ChatStep(s, prompt) /\ chat_input'[s].handled # "no data") =>
         /\ chat_input'[s].context = build_conversation_context(messages[s], feedback_data[s])
         /\ chat_input'[s].prompt = create_enhanced_prompt(prompt, chat_input'[s].context)
         /\ \E k \in 0..Len(messages[s]) :
              HistoryLines(chat_input'[s].context)
                = [i \in 1..k |-> HistoryLine(messages[s][Len(messages[s]) - k + i])]
         /\ Len(UserLines(chat_input'[s].context)) <= Len(UserTurns(messages[s]))
         /\ messages'[s][Len(messages[s]) + 1] = UserMessage(prompt)]_vars

\* C13 witness: a question was answered with a context that holds the turns
\* of an earlier exchange.
C13_Witness ==
  \E s \in Sessions :
    /\ chat_input[s].handled = "answer"
    /\ Len(messages[s]) >= 4
    /\ Len(UserLines(chat_input[s].context)) >= 1
    /\ Len(UserLines(chat_input[s].context)) < Len(UserTurns(messages[s]))

\* C14 (as claimed): when the transcript holds more turns than the window
\* size N, the context of a chat input has at most 2N history lines, at most
\* N of them user turns and at most N assistant turns, and they are the most
\* recent messages of the transcript in their order.
C14_WindowBound ==
  [][\A s \in Sessions, prompt \in Prompts :
       (/\ ChatStep(s, prompt) /\ chat_input'[s].handled # "no data"
        /\ config.CHAT_HISTORY_ENABLED
        /\ Len(messages[s]) > config.MAX_CHAT_HISTORY_CONTEXT) =>
         LET context == chat_input'[s].context
             k == Len(HistoryLines(context))
         IN /\ k <= 2 * config.MAX_CHAT_HISTORY_CONTEXT
            /\ Len(UserLines(context)) <= config.MAX_CHAT_HISTORY_CONTEXT
            /\ Len(AssistantLines(context)) <= config.MAX_CHAT_HISTORY_CONTEXT
            /\ HistoryLines(context)
                 = [i \in 1..k |-> HistoryLine(messages[s][Len(messages[s]) - k + i])]]_vars

\* C14, for the window sizes N >= 1 and the total only: the context has at
\* most 2N history lines and they are the most recent messages in order.
C14_WindowBoundPositive ==
  [][\A s \in Sessions, prompt \in Prompts :
       (/\ ChatStep(s, prompt) /\ chat_input'[s].handled # "no data"
        /\ config.CHAT_HISTORY_ENABLED
        /\ config.MAX_CHAT_HISTORY_CONTEXT >= 1) =>
         LET context == chat_input'[s].context
             k == Len(HistoryLines(context))
         IN /\ k <= 2 * config.MAX_CHAT_HISTORY_CONTEXT
            /\ HistoryLines(context)
                 = [i \in 1..k |-> HistoryLine(messages[s][Len(messages[s]) - k + i])]]_vars

\* C15 (as claimed): with feedback enabled, every answer produced after a
\* negative rating was recorded ends with the improvement note, whatever
\* feedback actions came in between; an answer produced while no negative
\* rating has been recorded is stored as the engine returned it.
C15_DisclosureSticks ==
  [][\A s \in Sessions, prompt \in Prompts :
       (/\ ChatStep(s, prompt) /\ chat_input'[s].handled = "answer"
        /\ config.FEEDBACK_ENABLED) =>
         LET content == messages'[s][Len(messages'[s])].content
         IN IF negative_recorded[s]
              THEN content[Len(content)] = IMPROVEMENT_NOTE
            ELSE content = <<last'.detail>>]_vars

\* The rating and the detailed comment stored for a message, Absent when
\* the message has no entry or the entry lacks that key.
FeedbackOf(fb, message_index) ==
  IF \E i \in 1..Len(fb) : fb[i].message_index = message_index
    THEN LET i == CHOOSE i \in 1..Len(fb) : fb[i].message_index = message_index
         IN [rating |-> fb[i].rating, detailed_feedback |-> fb[i].detailed_feedback]
  ELSE [rating |-> Absent, detailed_feedback |-> Absent]

\* C16 (as claimed): a message never has two feedback entries; pressing a
\* rating button stores the rating and keeps the detailed comment the
\* message already had; saving a detailed comment stores the comment and
\* keeps the rating the message already had.
C16_RatingAndDetailSeparate ==
  [][\A s \in Sessions, m \in 0..MaxMessages - 1 :
       /\ \A i, j \in 1..Len(feedback_data'[s]) :
            feedback_data'[s][i].message_index = feedback_data'[s][j].message_index => i = j
       /\ \A rating \in Ratings :
            StoreFeedback(s, m, rating) =>
              FeedbackOf(feedback_data'[s], m) =
                [rating |-> rating,
                 detailed_feedback |-> FeedbackOf(feedback_data[s], m).detailed_feedback]
       /\ \A feedback_text \in FeedbackTexts :
            SaveFeedback(s, m, feedback_text) =>
              FeedbackOf(feedback_data'[s], m) =
                [rating |-> FeedbackOf(feedback_data[s], m).rating,
                 detailed_feedback |-> feedback_text]]_vars

\* C17: when chat history is disabled, or when it is enabled and both the
\* transcript and the feedback map are empty, the prompt handed to the
\* engine's query is the user's question and nothing else, whatever the
\* transcript, the stored feedback and the feedback switch are.
C17_RawPromptWhenNoContext ==
  [][\A s \in Sessions, prompt \in Prompts :
       (/\ ChatStep(s, prompt) /\ chat_input'[s].handled # "no data"
        /\ \/ ~config.CHAT_HISTORY_ENABLED
           \/ messages[s] = << >> /\ feedback_data[s] = << >>) =>
         /\ chat_input'[s].question = prompt
         /\ chat_input'[s].prompt = <<Line("", <<<<prompt>>>>, 0)>>]_vars

\* C17 witness: with history disabled, a question asked after an earlier
\* answered and rated turn went to the engine as the raw question.
C17_Witness ==
  /\ ~config.CHAT_HISTORY_ENABLED /\ config.FEEDBACK_ENABLED
  /\ Len(messages[1]) = 4 /\ messages[1][4].role = "assistant"
  /\ ~messages[1][4].used_context
  /\ \E i \in 1..Len(feedback_data[1]) :
       feedback_data[1][i].message_index = 1 /\ feedback_data[1][i].rating = "negative"
  /\ messages[1][4].content[Len(messages[1][4].content)] = IMPROVEMENT_NOTE
  /\ chat_input[1].handled = "answer"
  /\ chat_input[1].prompt = RawPrompt(chat_input[1].question)

\* C20 (as claimed): when the provider call of the generative model raises
\* during the query of a chat input, the query returns an error and no
\* answer, the transcript gets no assistant turn that holds the failure
\* text, and the engine is left as it was, ready for the next query.
C20_GenerationFailureIsError ==
  [][\A s \in Sessions, prompt \in Prompts :
       \A retrieved \in (IF rag_system[s].qa_chain = None THEN {}
                         ELSE Retrievals(index, rag_system[s].qa_chain, RETRIEVAL_K)) :
         \A sources \in SourceLists(retrieved) :
           (/\ last'.op = "query" /\ index_status = "ready"
            /\ ChatInput(s, prompt, "generation", retrieved, sources)) =>
             /\ last'.ret = "error"
             /\ \A i \in 1..Len(messages'[s]) :
                  messages'[s][i].role = "assistant" =>
                    messages'[s][i].content[1] # "Error generating response"
             /\ rag_system'[s] = rag_system[s]
             /\ rag_system'[s].qa_chain # None]_vars

\* ------------------------------------------------------------- WebScraper
\* A URL is its network location and its path; an href with an empty
\* network location is relative to the page it stands on.
Url(netloc, path) == [netloc |-> netloc, path |-> path]
urljoin(current_url, href) ==
  IF href.netloc = "" THEN Url(current_url.netloc, href.path) ELSE href

SiteUrls == {Url("site", "/"), Url("site", "/a"), Url("site", "/b")}

\* The <a href> lists a page may carry, in document order: none; two
\* relative links; six links of which the sixth is the only one to /b.
LinkLists ==
  {<< >>,
   <<Url("", "/a"), Url("", "/b")>>,
   <<Url("other", "/x"), Url("", "/"), Url("", "/a"), Url("", "/a"),
     Url("site", "/a"), Url("", "/b")>>}
ContentLengths == {MIN_CONTENT, MIN_CONTENT + 1}
Pages == [links : LinkLists, content_len : ContentLengths]

\* WebScraper._find_additional_links: the list urls_to_visit after the
\* links of one page were looked at.
RECURSIVE AppendNewLinks(_, _, _, _, _)
AppendNewLinks(links, current_url, base_url, visited_urls, urls_to_visit) ==
  IF links = << >> THEN urls_to_visit
  ELSE LET full_url == urljoin(current_url, Head(links))
           add == /\ full_url.netloc = base_url.netloc
                  /\ full_url \notin visited_urls
                  /\ \A k \in 1..Len(urls_to_visit) : urls_to_visit[k] # full_url
       IN AppendNewLinks(Tail(links), current_url, base_url, visited_urls,
                         IF add THEN Append(urls_to_visit, full_url) ELSE urls_to_visit)
find_additional_links(links, current_url, base_url, visited_urls, urls_to_visit) ==
  AppendNewLinks(PyPrefix(links, LINKS_PER_PAGE), current_url, base_url,
                 visited_urls, urls_to_visit)

\* A loop over the list itself, which sees the URLs appended while it runs.
IterationList_live(snapshot, urls_to_visit) == urls_to_visit

\* The list the for loop of scrape_website runs over: the copy
\* urls_to_visit[:max_pages] made when the loop is entered.
IterationList(snapshot, urls_to_visit) == snapshot

\* The locals of scrape_website before the loop; `fetched` lists the
\* requests.get calls made so far.
ScrapeLocals(url) ==
  [documents |-> << >>, visited_urls |-> {}, urls_to_visit |-> <<url>>, fetched |-> << >>]

\* One pass of the loop body for the i-th item (i counts from 0).
scrape_page(site, url, max_pages, failing, i, current_url, st) ==
  IF current_url \in st.visited_urls THEN st
  ELSE IF current_url \in failing \/ current_url \notin DOMAIN site
    THEN [st EXCEPT !.fetched = Append(@, current_url)]
  ELSE IF site[current_url].content_len > MIN_CONTENT
    THEN [documents |-> Append(st.documents,
                               [source |-> current_url, type |-> "website",
                                content_len |-> site[current_url].content_len]),
          visited_urls |-> st.visited_urls \cup {current_url},
          urls_to_visit |->
            IF i < max_pages - 1
              THEN find_additional_links(site[current_url].links, current_url, url,
                                         st.visited_urls \cup {current_url},
                                         st.urls_to_visit)
            ELSE st.urls_to_visit,
          fetched |-> Append(st.fetched, current_url)]
  ELSE [st EXCEPT !.fetched = Append(@, current_url)]

RECURSIVE scrape_loop(_, _, _, _, _, _, _)
scrape_loop(site, url, max_pages, failing, snapshot, i, st) ==
  LET items == IterationList(snapshot, st.urls_to_visit)
  IN IF i >= Len(items) THEN st
     ELSE scrape_loop(site, url, max_pages, failing, snapshot, i + 1,
                      scrape_page(site, url, max_pages, failing, i, items[i + 1], st))

\* WebScraper.scrape_website; `failing` are the URLs whose request raises.
scrape_website(site, url, max_pages, failing) ==
  scrape_loop(site, url, max_pages, failing,
              PyPrefix(ScrapeLocals(url).urls_to_visit, max_pages), 0, ScrapeLocals(url))

\* The Document of a scraped page as the text splitter gets it.
PageDoc(document) ==
  IF document.source.path = "/" THEN "page /"
  ELSE IF document.source.path = "/a" THEN "page /a" ELSE "page /b"

\* WebScrapingTab._handle_scraping for a valid URL: the call of
\* scrape_website from start to return and, when it returned documents,
\* their ingestion by add_documents_to_vectorstore, whose outcome the
\* handler does not look at.
HandleScraping(s, url, max_pages, failing, times, fail) ==
  /\ Idle(s)
  /\ \E r \in {scrape_website(web, url, max_pages, failing)} :
       LET documents == [i \in 1..Len(r.documents) |-> PageDoc(r.documents[i])]
       IN /\ Len(times) = Len(documents)
          /\ fail = 0 \/ (documents # << >> /\ rag_system[s].vectorstore # None
                           /\ fail <= Len(split_documents(documents)))
          /\ scraper' = [phase |-> "returned", url |-> url, max_pages |-> max_pages,
                         failing |-> failing, documents |-> r.documents,
                         urls_to_visit |-> r.urls_to_visit, fetched |-> r.fetched]
          /\ IF documents = << >>
               THEN UNCHANGED <<rag_system, index, last>>
             ELSE \E a \in {add_documents_to_vectorstore(rag_system[s], index, index_status,
                                                        documents, times, fail)} :
                    /\ IndexSize(a.index) <= MaxVectors
                    /\ rag_system' = [rag_system EXCEPT ![s] = a.eng]
                    /\ index' = a.index
                    /\ last' = [NoCall EXCEPT !.op = "add", !.s = s, !.ret = a.out]
  /\ UNCHANGED <<web, chat_vars, deploy_vars, sidebar_vars, PINECONE_AVAILABLE, setup_succeeded,
                 temp_namespaces, atexit, index_status>>

\* The site whose pages all carry the links to /a and /b and substantial
\* content.
LinkedSite ==
  [u \in SiteUrls |-> [links |-> <<Url("", "/a"), Url("", "/b")>>,
                       content_len |-> MIN_CONTENT + 1]]

\* A site of three pages with any of the link lists and content lengths;
\* no scrape has run yet.  The session's engine is unbound, as Clear
\* Database leaves it, or, on the linked site, set up on the persistent
\* namespace.
InitScrape ==
  /\ config = DefaultConfig /\ NewChat({1}) /\ IdleDeploy({1}) /\ IdleSidebar({1})
  /\ web \in [SiteUrls -> Pages]
  /\ scraper = NoScrape
  /\ PINECONE_AVAILABLE = TRUE
  /\ \/ rag_system = [s \in {1} |-> NewRAGSystem] /\ setup_succeeded = [s \in {1} |-> FALSE]
     \/ /\ web = LinkedSite
        /\ rag_system = [s \in {1} |-> ReadyPersistent]
        /\ setup_succeeded = [s \in {1} |-> TRUE]
  /\ temp_namespaces = [s \in {1} |-> AbsentRegistry]
  /\ atexit = << >>
  /\ index_status = "ready"
  /\ index_dimension = DimensionOfIndex(index_status)
  /\ index = EmptyIndex
  /\ last = NoCall

\* The handler with any reading of datetime.now() for each scraped document
\* and any failure of the backend during the ingestion.
ScrapeStep(s, url, max_pages, failing) ==
  \E n \in {Len(scrape_website(web, url, max_pages, failing).documents)} :
    \E times \in [1..n -> 0..MaxTime], fail \in 0..n :
      HandleScraping(s, url, max_pages, failing, times, fail)

\* The Scrape Website button with any URL of the site, any page budget and
\* any set of failing requests.
NextScrape ==
  \E s \in Sessions, url \in SiteUrls, max_pages \in 1..MaxPages, failing \in SUBSET SiteUrls :
    ScrapeStep(s, url, max_pages, failing)

SpecScrape == InitScrape /\ [][NextScrape]_vars

\* C18: a call of scrape_website with max_pages >= 1 requests at most
\* max_pages pages, returns at most max_pages documents, requests no URL
\* twice, and a non-empty result starts with the document of the start URL.
C18_CrawlBudget ==
  scraper.phase = "returned" =>
    /\ Len(scraper.fetched) <= scraper.max_pages
    /\ Len(scraper.documents) <= scraper.max_pages
    /\ \A i, j \in 1..Len(scraper.fetched) :
         scraper.fetched[i] = scraper.fetched[j] => i = j
    /\ scraper.documents # << >> => scraper.documents[1].source = scraper.url

\* C18 witness: a call with a budget of two or more pages returned the
\* start page's document after queueing links found on that page.
C18_Witness ==
  /\ scraper.phase = "returned" /\ scraper.max_pages >= 2
  /\ Len(scraper.urls_to_visit) >= 3
  /\ scraper.documents # << >> /\ scraper.documents[1].source = scraper.url

\* C19 (as claimed): when no request fails and every page has substantial
\* content, the pages requested are the first max_pages URLs of the queue
\* in discovery order; so a call with max_pages = 3 on a start page whose
\* first links lead to two or more other same-origin pages returns three
\* documents.
C19_BreadthFirst ==
  (/\ scraper.phase = "returned" /\ scraper.failing = {}
   /\ \A u \in SiteUrls : web[u].content_len > MIN_CONTENT) =>
    /\ scraper.fetched = PyPrefix(scraper.urls_to_visit, scraper.max_pages)
    /\ (/\ scraper.max_pages = 3
        /\ Len(find_additional_links(web[scraper.url].links, scraper.url, scraper.url,
                                     {scraper.url}, <<scraper.url>>)) >= 3) =>
         Len(scraper.documents) = 3

\* C21: a setup call that has to create the index returns True only when
\* the service reports the index ready, however long the service takes, and
\* an add_documents_to_vectorstore that follows such a setup, with no
\* backend failure of its own, is accepted: it is never rejected because
\* the index is not ready.
C21_SetupWaitsForReady ==
  [][/\ \A s \in Sessions :
          (/\ last'.op = "setup" /\ last'.s = s /\ setup_call[s].pc = "sleep"
           /\ last'.ret = "True") =>
            (index_status' = "ready" /\ "create_index" \in last'.calls)
     /\ \A s \in Sessions, documents \in DocLists \ {<< >>} :
          \A times \in [1..Len(documents) -> 0..MaxTime] :
            (/\ last.op = "setup" /\ last.ret = "True" /\ last.s = s
             /\ "create_index" \in last.calls
             /\ last'.op = "add" /\ AddDocuments(s, documents, times, 0)) =>
              last'.ret = "success"]_vars

\* C21 witness: a setup call requested the creation of the index, waited
\* inside pc.create_index until the service reported the index ready, bound
\* the vector store and the chain and returned True.
C21_Witness ==
  /\ last.op = "setup" /\ last.ret = "True" /\ "create_index" \in last.calls
  /\ index_status = "ready"
  /\ setup_succeeded[last.s]
  /\ rag_system[last.s].qa_chain = rag_system[last.s].current_namespace

\* ------------------------------------------------------- index provisioning
\* setup_vectorstore run by several sessions at once.  Each session's script
\* runs in a thread of its own, so another session's calls can fall between
\* pc.list_indexes() (line 206) and pc.create_index() (line 213).

\* The first part of setup_vectorstore, up to the return of
\* pc.list_indexes(): the session id, the cleanup registration and
\* current_namespace are assigned, and the call remembers whether the index
\* was listed.
SetupBegin(s, storage_mode, uuid) ==
  /\ Idle(s)
  /\ (storage_mode = "temporary" /\ rag_system[s].session_id = None)
       \/ uuid = CHOOSE u \in SessionIds : TRUE
  /\ \E n \in {select_namespace(rag_system[s], temp_namespaces[s], atexit, s,
                                storage_mode, uuid)} :
       /\ rag_system' = [rag_system EXCEPT ![s] = n.eng]
       /\ temp_namespaces' = [temp_namespaces EXCEPT ![s] = n.temp_namespaces]
       /\ Len(n.atexit) <= MaxRegistrations
       /\ atexit' = n.atexit
  /\ setup_call' = [setup_call EXCEPT ![s] =
                      [pc |-> "listed", storage_mode |-> storage_mode,
                       existing |-> index_status # "absent"]]
  /\ last' = [NoCall EXCEPT !.op = "setup_begin", !.s = s, !.arg = storage_mode]
  /\ UNCHANGED <<chat_vars, scraper_vars, sidebar_vars, embedding_config, embeddings, index_dimension,
                 PINECONE_AVAILABLE, setup_succeeded, index_status, index>>

\* The call goes on from `if index_name not in existing_index_names`: to
\* the creation request of pc.create_index when it creates the index, to
\* its return otherwise.  The backend is healthy: the only call that raises is a
\* create_index for a name that exists by now, which the service rejects.
SetupFinish(s) ==
  /\ setup_call[s].pc = "listed"
  /\ \E conflict \in {~setup_call[s].existing /\ index_status # "absent"},
        b \in {bind_vectorstore(rag_system[s], rag_system[s].current_namespace, "none")} :
       IF ~setup_call[s].existing /\ ~conflict
         THEN /\ index_status' = "initializing"
              /\ setup_call' = [setup_call EXCEPT ![s] =
                                  [pc |-> "create_index",
                                   storage_mode |-> setup_call[s].storage_mode]]
              /\ last' = [NoCall EXCEPT !.op = "setup_create", !.s = s,
                                        !.arg = setup_call[s].storage_mode]
              /\ UNCHANGED <<rag_system, setup_succeeded>>
         ELSE /\ rag_system' = IF conflict THEN rag_system
                               ELSE [rag_system EXCEPT ![s] = b.eng]
              /\ setup_succeeded' = [setup_succeeded EXCEPT ![s] = @ \/ ~conflict]
              /\ setup_call' = [setup_call EXCEPT ![s] = NoSetupCall]
              /\ last' = [NoCall EXCEPT !.op = "setup", !.s = s,
                                        !.arg = setup_call[s].storage_mode,
                                        !.ret = IF conflict THEN "False" ELSE "True",
                                        !.detail = IF conflict THEN "already exists" ELSE ""]
              /\ UNCHANGED index_status
  /\ index_dimension' = DimensionAfterSetup(index_status, index_status', index_dimension)
  /\ UNCHANGED <<chat_vars, scraper_vars, sidebar_vars, embedding_config, embeddings,
                 PINECONE_AVAILABLE, temp_namespaces, atexit, index>>

\* Two sessions of one process and a healthy backend; the index exists or
\* does not exist yet.
InitProvision ==
  /\ config = DefaultConfig /\ NewChat({1, 2}) /\ IdleScraper /\ IdleDeploy({1, 2}) /\ IdleSidebar({1, 2})
  /\ PINECONE_AVAILABLE = TRUE
  /\ rag_system = [s \in {1, 2} |-> NewRAGSystem]
  /\ setup_succeeded = [s \in {1, 2} |-> FALSE]
  /\ temp_namespaces = [s \in {1, 2} |-> AbsentRegistry]
  /\ atexit = << >>
  /\ index_status \in {"absent", "ready"}
  /\ index_dimension = DimensionOfIndex(index_status)
  /\ index = EmptyIndex
  /\ last = NoCall

NextProvision ==
  \/ \E s \in Sessions, storage_mode \in StorageModes, uuid \in SessionIds :
       SetupBegin(s, storage_mode, uuid)
  \/ \E s \in Sessions : SetupFinish(s)
  \/ \E s \in Sessions : CreateIndexReturns(s)
  \/ \E s \in Sessions : SetupWakes(s, "none")
  \/ IndexBecomesReady

SpecProvision == InitProvision /\ [][NextProvision]_vars

\* C22 (as claimed): against a healthy backend every setup call, whatever
\* other sessions' setup calls it is interleaved with, returns True, and it
\* creates the index only when the index does not exist.
C22_ProvisioningIdempotent ==
  [][\A s \in Sessions :
       /\ (last'.op = "setup" /\ (SetupFinish(s) \/ SetupWakes(s, "none"))) =>
            last'.ret = "True"
       /\ (last'.op = "setup_create" /\ SetupFinish(s)) => index_status = "absent"]_vars

\* --------------------------------------------------------------- embeddings
\* One session that holds no engine yet; the embedding model and device are
\* any the environment can configure.
InitEmbed ==
  /\ config = DefaultConfig /\ NewChat({1}) /\ IdleScraper /\ NewSession({1})
  /\ setup_call = [s \in {1} |-> NoSetupCall]
  /\ embedding_config \in EmbeddingConfigs
  /\ embeddings = [s \in {1} |-> NoEmbeddings]
  /\ PINECONE_AVAILABLE = TRUE
  /\ rag_system = [s \in {1} |-> NewRAGSystem]
  /\ setup_succeeded = [s \in {1} |-> FALSE]
  /\ temp_namespaces = [s \in {1} |-> AbsentRegistry]
  /\ atexit = << >>
  /\ index_status = "ready"
  /\ index_dimension = DimensionOfIndex(index_status)
  /\ index = EmptyIndex
  /\ last = NoCall

\* The engine operations need an engine.
HasEngine(s) == embeddings[s].committed # 0

NextEmbed ==
  \/ \E s \in Sessions, outcomes \in Outcomes : ConstructEngine(s, outcomes)
  \/ \E s \in Sessions : HasEngine(s) /\ SetupStep(s, "permanent")
  \/ \E s \in Sessions, d \in Docs : HasEngine(s) /\ AddStep(s, <<d>>)
  \/ \E s \in Sessions : HasEngine(s) /\ QueryStep(s)
  \/ \E s \in Sessions : HasEngine(s) /\ ClearStep(s, NoScope)

SpecEmbed == InitEmbed /\ [][NextEmbed]_vars

\* C23: a construction tries the strategies in order 1, 2, ... and stops at
\* the first that initializes, whose embeddings the new engine holds; when
\* all five fail the constructor raises and the session gets no new engine;
\* setup, add, query and clear_database never change an engine's embeddings.
C23_FirstSuccessCommitted ==
  [][/\ \A s \in Sessions, outcomes \in Outcomes :
          (last'.op = "construct" /\ ConstructEngine(s, outcomes)) =>
            LET succeeding == {i \in 1..5 : outcomes[i]}
            IN IF succeeding = {}
                 THEN /\ last'.ret = "raise"
                      /\ rag_system' = rag_system
                      /\ embeddings'[s].committed = embeddings[s].committed
                      /\ embeddings'[s].strategy = embeddings[s].strategy
                      /\ embeddings'[s].attempts = <<1, 2, 3, 4, 5>>
               ELSE \E k \in succeeding :
                      /\ \A i \in succeeding : k <= i
                      /\ last'.ret = "engine"
                      /\ rag_system'[s] = NewRAGSystem
                      /\ embeddings'[s].committed = k
                      /\ embeddings'[s].strategy = EmbeddingStrategies(embedding_config)[k]
                      /\ embeddings'[s].attempts = [i \in 1..k |-> i]
     /\ last'.op \in {"setup", "add", "query", "clear"} => embeddings' = embeddings]_vars

\* C23 witness: an engine that fell back to the fourth strategy answers a
\* query with the fallback model still committed.
C23_Witness ==
  /\ last.op = "query" /\ last.ret = "answer"
  /\ embedding_config.EMBEDDING_MODEL = MPNET
  /\ embeddings[1].committed = 4 /\ embeddings[1].attempts = <<1, 2, 3, 4>>
  /\ embeddings[1].strategy = [model_name |-> MINILM, device |-> "cpu"]

\* ------------------------------------------------------------- source lists
\* The chunk lists the retriever can return when the namespace holds chunks
\* of three documents: any chunks in any order, a document's chunk more than
\* once.  The results are drawn directly; the index content behind them is
\* not tracked in this specification.
SourceDocs == {"d1", "d2", "d3"}
RetrievedLists ==
  UNION {[1..n -> {[namespace |-> PERSISTENT, chunk |-> <<d, 1>>] : d \in SourceDocs}] :
           n \in 0..MaxRetrieved}

\* A ready engine on the persistent namespace and an empty chat.
InitSources ==
  /\ config = DefaultConfig /\ NewChat({1}) /\ IdleScraper /\ IdleDeploy({1}) /\ IdleSidebar({1})
  /\ PINECONE_AVAILABLE = TRUE
  /\ rag_system = [s \in {1} |-> ReadyPersistent]
  /\ setup_succeeded = [s \in {1} |-> TRUE]
  /\ temp_namespaces = [s \in {1} |-> AbsentRegistry]
  /\ atexit = << >>
  /\ index_status = "ready"
  /\ index_dimension = DimensionOfIndex(index_status)
  /\ index = EmptyIndex
  /\ last = NoCall

\* A question is answered from one of the retrieval results.
NextSources ==
  \E s \in Sessions, prompt \in Prompts, retrieved \in RetrievedLists :
    \E sources \in SourceLists(retrieved) :
      ChatInput(s, prompt, "none", retrieved, sources)

SpecSources == InitSources /\ [][NextSources]_vars

\* The source identifiers of a chunk list, chunk by chunk.
ChunkSources(retrieved) ==
  [i \in 1..Len(retrieved) |-> Metadata(retrieved[i].chunk[1]).source]

\* C24 (as claimed): the sources stored with an answer hold every source
\* identifier of the retrieved chunks exactly once, in the order in which
\* the identifiers first occur in the retrieved chunk list.
C24_SourcesInFirstOccurrenceOrder ==
  [][\A s \in Sessions :
       (last'.op = "query" /\ chat_input'[s].handled = "answer"
        /\ messages'[s] # messages[s]) =>
         LET sources == messages'[s][Len(messages'[s])].sources
             chunk_sources == ChunkSources(last'.docs)
             First(x) == CHOOSE i \in 1..Len(chunk_sources) :
                           /\ chunk_sources[i] = x
                           /\ \A j \in 1..i - 1 : chunk_sources[j] # x
         IN /\ {sources[i] : i \in 1..Len(sources)}
                 = {chunk_sources[i] : i \in 1..Len(chunk_sources)}
            /\ \A i, j \in 1..Len(sources) : i # j => sources[i] # sources[j]
            /\ \A i, j \in 1..Len(sources) :
                 i < j => First(sources[i]) < First(sources[j])]_vars

\* C25 (as claimed): for every input budget, counted in chunks, a prompt
\* built from more retrieved chunks than fit holds exactly the chunks that
\* fit, taken from the head of the retrieval result, which is ordered best
\* score first; the lower-scored chunks are left out.
C25_ScoreAscendingEviction ==
  [][\A budget \in 0..MaxRetrieved :
       (last'.op = "query" /\ "llm" \in last'.calls /\ Len(last'.docs) > budget) =>
         last'.prompt.context = [i \in 1..budget |-> last'.docs[i].chunk]]_vars

\* ---------------------------------------------------------------- dimension
\* The vector dimension of an embedding model: 384 for all-MiniLM-L6-v2
\* (the comment of line 215), twice that for all-mpnet-base-v2.
Dimension(model_name) ==
  IF model_name = MINILM THEN INDEX_DIMENSION ELSE 2 * INDEX_DIMENSION

\* One session without an engine, any embedding configuration, and an index
\* that does not exist or was created earlier with either dimension.
InitDimension ==
  /\ config = DefaultConfig /\ NewChat({1}) /\ IdleScraper /\ NewSession({1})
  /\ setup_call = [s \in {1} |-> NoSetupCall]
  /\ embedding_config \in EmbeddingConfigs
  /\ embeddings = [s \in {1} |-> NoEmbeddings]
  /\ PINECONE_AVAILABLE = TRUE
  /\ rag_system = [s \in {1} |-> NewRAGSystem]
  /\ setup_succeeded = [s \in {1} |-> FALSE]
  /\ temp_namespaces = [s \in {1} |-> AbsentRegistry]
  /\ atexit = << >>
  /\ index_status \in {"absent", "ready"}
  /\ index_dimension \in IF index_status = "absent" THEN {NoDimension}
                         ELSE {Dimension(m) : m \in {MINILM, MPNET}}
  /\ index = EmptyIndex
  /\ last = NoCall

\* The session's engine is constructed once and then used in permanent mode.
NextDimension ==
  \/ \E s \in Sessions, outcomes \in Outcomes : ~HasEngine(s) /\ ConstructEngine(s, outcomes)
  \/ \E s \in Sessions : HasEngine(s) /\ SetupStep(s, "permanent")
  \/ \E s \in Sessions : CreateIndexReturns(s)
  \/ \E s \in Sessions, fail \in WakeFailures : SetupWakes(s, fail)
  \/ IndexBecomesReady
  \/ \E s \in Sessions, d \in Docs : HasEngine(s) /\ AddStep(s, <<d>>)
  \/ \E s \in Sessions : HasEngine(s) /\ QueryStep(s)

SpecDimension == InitDimension /\ [][NextDimension]_vars

\* C26 (as claimed): a setup returns True only when the dimension of the
\* engine's embedding model equals the dimension of the index, and every
\* query that reaches the retriever is made by an engine whose model has
\* the index's dimension.
C26_DimensionsMatch ==
  /\ (last.op = "setup" /\ last.ret = "True") =>
       Dimension(embeddings[last.s].strategy.model_name) = index_dimension
  /\ (last.op = "query" /\ "retriever" \in last.calls) =>
       Dimension(embeddings[last.s].strategy.model_name) = index_dimension

\* ------------------------------------------------- scope of clear_database
\* C27: clear_database never issues a delete without a namespace: in every
\* reachable state an engine whose vector store is bound has a
\* current_namespace, whatever setup (succeeding or failing), add, query and
\* clear calls came before, so the branch of clear_database that deletes the
\* whole index is never taken and every delete a clear issued names a
\* namespace.
C27_NoWholeIndexDelete ==
  /\ \A s \in Sessions :
       rag_system[s].vectorstore # None => rag_system[s].current_namespace # None
  /\ last.op = "clear" => \A i \in 1..Len(last.deleted) : last.deleted[i] # None

\* C27 witness: clear_database without a scope, on an engine with a bound
\* vector store, emptied the engine's namespace only: vectors of another
\* namespace are still in the index.
C27_Witness ==
  /\ last.op = "clear" /\ last.arg = NoScope /\ last.ret = "cleared"
  /\ Len(last.deleted) = 1 /\ last.deleted[1] # None
  /\ index[last.deleted[1]] = EmptyBag
  /\ IndexSize(index) > 0

\* ------------------------------------------------------------- the sidebar
\* The condition of Sidebar._initialize_rag_system: 'rag_system' is not in
\* st.session_state, or the stored db_key is not the key of the radio's mode.
needs_new_system(ss, storage_mode) ==
  ~ss.has_rag_system \/ ss.db_key # DbKey(storage_mode)

\* Sidebar._initialize_rag_system.  `eng` is the engine the session holds (if
\* any) and `constructed` says whether RAGSystem(api_key) returns; `calls`
\* lists what the run called and `stopped` says whether the run ended before
\* the page was drawn (st.stop(), or the exception of the constructor).
initialize_rag_system(ss, eng, tn, ax, s, status, storage_mode, uuid, fail, ready, constructed) ==
  IF ~needs_new_system(ss, storage_mode)
    THEN [session_state |-> ss, eng |-> eng, temp_namespaces |-> tn, atexit |-> ax,
          index_status |-> status, calls |-> {}, ret |-> "", stopped |-> FALSE]
  ELSE IF ~constructed
    THEN [session_state |-> ss, eng |-> eng, temp_namespaces |-> tn, atexit |-> ax,
          index_status |-> status, calls |-> {"RAGSystem"}, ret |-> "raise",
          stopped |-> TRUE]
  ELSE LET r == setup_vectorstore(NewRAGSystem, tn, ax, s, status, storage_mode,
                                  uuid, fail, ready)
       IN [session_state |-> [has_rag_system |-> TRUE, db_key |-> DbKey(storage_mode)],
           eng |-> r.eng, temp_namespaces |-> r.temp_namespaces, atexit |-> r.atexit,
           index_status |-> r.index_status,
           calls |-> {"RAGSystem", "setup_vectorstore"},
           ret |-> IF r.ret THEN "True" ELSE "False", stopped |-> ~r.ret]

\* One run of the script with the radio on storage_mode and no button
\* pressed: Sidebar.render up to _initialize_rag_system (what follows only
\* displays the engine).  The run goes to its end or, when its setup has to
\* create the index, to the creation request, after which it waits inside
\* pc.create_index and in the time.sleep(10) of rag_system.py line 227: the
\* new engine and db_key are in st.session_state by then (lines 93-94).
Render(s, storage_mode, uuid, fail, outcomes) ==
  /\ Idle(s)
  /\ (needs_new_system(session_state[s], storage_mode) /\ storage_mode = "temporary")
       \/ uuid = CHOOSE u \in SessionIds : TRUE
  /\ needs_new_system(session_state[s], storage_mode)
       \/ (fail = "none" /\ outcomes = [i \in 1..5 |-> TRUE])
  /\ \E e \in {initialize_embeddings_robust(embedding_config, outcomes)},
        p \in {provision_index(index_status, fail)} :
     /\ e.raised => fail = "none"
     /\ embeddings' = IF ~needs_new_system(session_state[s], storage_mode) THEN embeddings
                      ELSE [embeddings EXCEPT ![s] =
                              IF e.raised THEN [@ EXCEPT !.attempts = e.attempts]
                              ELSE [committed |-> e.committed, strategy |-> e.strategy,
                                    attempts |-> e.attempts]]
     /\ IF needs_new_system(session_state[s], storage_mode) /\ ~e.raised /\ p.created
          THEN \E n \in {select_namespace(NewRAGSystem, temp_namespaces[s], atexit, s,
                                          storage_mode, uuid)} :
               /\ fail = "none"
               /\ Len(n.atexit) <= MaxRegistrations
               /\ session_state' = [session_state EXCEPT ![s] =
                                      [has_rag_system |-> TRUE,
                                       db_key |-> DbKey(storage_mode)]]
               /\ rag_system' = [rag_system EXCEPT ![s] = n.eng]
               /\ setup_succeeded' = [setup_succeeded EXCEPT ![s] = FALSE]
               /\ temp_namespaces' = [temp_namespaces EXCEPT ![s] = n.temp_namespaces]
               /\ atexit' = n.atexit
               /\ index_status' = p.index_status
               /\ index_dimension' = DimensionAfterSetup(index_status, p.index_status,
                                                         index_dimension)
               /\ setup_call' = [setup_call EXCEPT ![s] =
                                   [pc |-> "create_index", storage_mode |-> storage_mode]]
               /\ last' = [NoCall EXCEPT !.op = "render_create", !.s = s,
                                         !.arg = storage_mode,
                                         !.calls = {"RAGSystem", "setup_vectorstore"}]
               /\ UNCHANGED sidebar
          ELSE \E r \in {initialize_rag_system(session_state[s], rag_system[s],
                                                temp_namespaces[s], atexit, s, index_status,
                                                storage_mode, uuid, fail, TRUE, ~e.raised)} :
               /\ Len(r.atexit) <= MaxRegistrations
               /\ session_state' = [session_state EXCEPT ![s] = r.session_state]
               /\ sidebar' = [sidebar EXCEPT ![s] = [storage_mode |-> storage_mode,
                                                     stopped |-> r.stopped]]
               /\ rag_system' = [rag_system EXCEPT ![s] = r.eng]
               /\ setup_succeeded' = [setup_succeeded EXCEPT ![s] =
                                        IF "setup_vectorstore" \in r.calls
                                        THEN r.ret = "True" ELSE @]
               /\ temp_namespaces' = [temp_namespaces EXCEPT ![s] = r.temp_namespaces]
               /\ atexit' = r.atexit
               /\ index_status' = r.index_status
               /\ index_dimension' = DimensionAfterSetup(index_status, r.index_status,
                                                         index_dimension)
               /\ last' = [NoCall EXCEPT !.op = "render", !.s = s, !.arg = storage_mode,
                                         !.ret = r.ret, !.calls = r.calls]
               /\ UNCHANGED setup_call
  /\ UNCHANGED <<chat_vars, scraper_vars, embedding_config, PINECONE_AVAILABLE, index>>

\* The setup of the run goes on from the creation request to its return
\* (the sleep ends and the call binds, or the wait inside pc.create_index
\* raises), and the run draws the page or ends in st.stop().
RenderWakes(s, fail) ==
  /\ IF fail = "create_index"
       THEN setup_call[s].pc = "create_index" /\ index_status = "initializing"
       ELSE setup_call[s].pc = "sleep"
  /\ \E b \in {IF fail = "create_index" THEN [eng |-> rag_system[s], ret |-> FALSE]
                ELSE bind_vectorstore(rag_system[s], rag_system[s].current_namespace,
                                      fail)} :
     /\ rag_system' = [rag_system EXCEPT ![s] = b.eng]
     /\ setup_succeeded' = [setup_succeeded EXCEPT ![s] = b.ret]
     /\ sidebar' = [sidebar EXCEPT ![s] = [storage_mode |-> setup_call[s].storage_mode,
                                           stopped |-> ~b.ret]]
     /\ last' = [NoCall EXCEPT !.op = "render_wake", !.s = s,
                               !.arg = setup_call[s].storage_mode,
                               !.ret = IF b.ret THEN "True" ELSE "False",
                               !.calls = {"RAGSystem", "setup_vectorstore"}]
  /\ setup_call' = [setup_call EXCEPT ![s] = NoSetupCall]
  /\ UNCHANGED <<chat_vars, scraper_vars, session_state, embedding_config, embeddings,
                 index_dimension, PINECONE_AVAILABLE, temp_namespaces, atexit,
                 index_status, index>>

\* The widgets below _initialize_rag_system and the tabs are on the page
\* when the session's last run was not stopped.
PageShown(s) == session_state[s].has_rag_system /\ ~sidebar[s].stopped

\* The "Clear Database" button of Sidebar._render_database_actions: the run
\* the click starts has the radio where the last run left it, so
\* _initialize_rag_system returns the stored engine, and the button calls
\* clear_database with the radio's mode; st.rerun() then runs the script
\* again with the same mode.
ClearDatabaseButton(s, fail) ==
  /\ Idle(s)
  /\ PageShown(s)
  /\ \E r \in {clear_database(rag_system[s], temp_namespaces[s], index,
                              sidebar[s].storage_mode, fail)} :
     /\ fail > 0 => r.raised
     /\ rag_system' = [rag_system EXCEPT ![s] = r.eng]
     /\ setup_succeeded' = [setup_succeeded EXCEPT ![s] = @ /\ ~r.reset]
     /\ temp_namespaces' = [temp_namespaces EXCEPT ![s] = r.temp_namespaces]
     /\ index' = r.index
     /\ last' = [NoCall EXCEPT !.op = "clear", !.s = s, !.arg = sidebar[s].storage_mode,
                               !.ret = IF r.raised THEN "error" ELSE "cleared",
                               !.deleted = r.deleted]
     /\ UNCHANGED <<chat_vars, scraper_vars, deploy_vars, sidebar_vars, PINECONE_AVAILABLE,
                    atexit, index_status>>

InitSidebar ==
  /\ config = DefaultConfig /\ NewChat({1}) /\ IdleScraper /\ NewSession({1})
  /\ setup_call = [s \in {1} |-> NoSetupCall]
  /\ embedding_config = DefaultEmbeddingConfig
  /\ embeddings = [s \in {1} |-> NoEmbeddings]
  /\ PINECONE_AVAILABLE \in BOOLEAN
  /\ rag_system = [s \in {1} |-> NewRAGSystem]
  /\ setup_succeeded = [s \in {1} |-> FALSE]
  /\ temp_namespaces = [s \in {1} |-> AbsentRegistry]
  /\ atexit = << >>
  /\ index_status \in {"absent", "ready"}
  /\ index_dimension = DimensionOfIndex(index_status)
  /\ index = EmptyIndex
  /\ last = NoCall

\* The runs of the script in one browser session: a run without a button
\* (to its end, or to the wait of its setup and on from there), the Clear
\* Database button, an ingest from a tab, a question typed into the chat
\* input of the page and the Clear Chat button.
NextSidebar ==
  \/ \E s \in Sessions, storage_mode \in StorageModes, uuid \in SessionIds,
        fail \in SetupFailures, outcomes \in {[i \in 1..5 |-> b] : b \in BOOLEAN} :
       Render(s, storage_mode, uuid, fail, outcomes)
  \/ \E s \in Sessions : CreateIndexReturns(s)
  \/ \E s \in Sessions, fail \in WakeFailures : RenderWakes(s, fail)
  \/ \E s \in Sessions, fail \in 0..Cardinality(SessionIds) + 1 : ClearDatabaseButton(s, fail)
  \/ IndexBecomesReady
  \/ \E s \in Sessions, documents \in DocLists : PageShown(s) /\ AddStep(s, documents)
  \/ \E s \in Sessions, prompt \in Prompts :
       PageShown(s) /\ Len(messages[s]) + 2 <= MaxTurnsOnPage /\ ChatStep(s, prompt)
  \/ \E s \in Sessions :
       Idle(s) /\ PageShown(s) /\ messages[s] # << >> /\ ClearChat(s)

SpecSidebar == InitSidebar /\ [][NextSidebar]_vars

\* The session holds an engine that its setup, having failed, or the Clear
\* Database button left uninitialized.
LeftUninitialized(s) ==
  session_state[s].has_rag_system /\ ~setup_succeeded[s] /\ Idle(s)

\* C28 (as claimed): a run of the sidebar calls setup_vectorstore exactly
\* when it constructs a new RAGSystem, which is exactly when the session
\* holds no engine or the stored db_key is not the key of the selected
\* storage mode; every other run returns the stored engine untouched.  So an
\* engine left uninitialized by a failed setup or by the Clear Database
\* button stays so until a run with another storage mode replaces it, and
\* until then every question is refused by the chat input or answered
\* "System not initialized", no answer enters the transcript, and every
\* ingest is rejected without a write.
C28_SetupOnlyOnNewSystem ==
  [][\A s \in Sessions :
       /\ (last' # last /\ last'.op \in {"render", "render_create"} /\ last'.s = s) =>
            /\ ("setup_vectorstore" \in last'.calls) <=>
                 ("RAGSystem" \in last'.calls /\ last'.ret # "raise")
            /\ ("RAGSystem" \in last'.calls) <=>
                 (~session_state[s].has_rag_system
                    \/ session_state[s].db_key # DbKey(last'.arg))
            /\ "RAGSystem" \notin last'.calls =>
                 /\ rag_system'[s] = rag_system[s]
                 /\ setup_succeeded'[s] = setup_succeeded[s]
                 /\ index' = index /\ index_status' = index_status
                 /\ temp_namespaces' = temp_namespaces /\ atexit' = atexit
       /\ LeftUninitialized(s) =>
            \/ ~setup_succeeded'[s]
            \/ /\ last'.op \in {"render", "render_create"} /\ last'.s = s
               /\ session_state[s].db_key # DbKey(last'.arg)
               /\ "RAGSystem" \in last'.calls
       /\ (LeftUninitialized(s) /\ last'.s = s /\ last'.op = "query") =>
            (last'.detail = "System not initialized" /\ last'.calls = {})
       /\ LeftUninitialized(s) =>
            \A i \in Len(messages[s]) + 1..Len(messages'[s]) :
               messages'[s][i].role # "assistant"
       /\ (LeftUninitialized(s) /\ last'.s = s /\ last'.op = "add") =>
            (last'.ret # "success" /\ index' = index
               /\ rag_system'[s] = rag_system[s])]_vars

\* ------------------------------------------------ feedback and transcript
\* C29: in every state reachable by chat inputs, feedback actions and Clear
\* Chat, every entry of the feedback map refers to an existing turn of the
\* transcript that is an assistant turn; and every step either keeps the
\* turns the transcript has, in their order (it can only append), or empties
\* the transcript, the feedback map and the conversation context together.
C29_FeedbackRefersToAssistantTurn ==
  /\ [](\A s \in Sessions : \A i \in 1..Len(feedback_data[s]) :
          /\ feedback_data[s][i].message_index < Len(messages[s])
          /\ messages[s][feedback_data[s][i].message_index + 1].role = "assistant")
  /\ [][\A s \in Sessions :
          \/ /\ Len(messages'[s]) >= Len(messages[s])
             /\ SubSeq(messages'[s], 1, Len(messages[s])) = messages[s]
          \/ /\ messages'[s] = << >> /\ feedback_data'[s] = << >>
             /\ conversation_context'[s] = << >>]_vars

\* C29 witness: a feedback form was opened, the chat was cleared and resumed
\* (the form's index is now a user turn or beyond the transcript), and
\* feedback was stored for an assistant turn of the new transcript.
C29_Witness ==
  \E s \in Sessions :
    /\ \E i \in show_feedback_form[s] : ~HasFeedbackButtons(s, i)
    /\ feedback_data[s] # << >>
    /\ \E i \in 1..Len(messages[s]) : messages[s][i].role = "assistant"

\* ------------------------------------------------------------ exit cleanup
\* One session that uses both storage modes, with engines it replaces, until
\* the process exits; once
\* the process is exiting only atexit callbacks run.
NextExit ==
  \/ last.op # "cleanup" /\ \E s \in Sessions, outcomes \in FirstStrategyLoads :
                              ConstructEngine(s, outcomes)
  \/ last.op # "cleanup" /\ \E s \in Sessions, storage_mode \in StorageModes :
                              SetupStep(s, storage_mode)
  \/ last.op # "cleanup" /\ \E s \in Sessions : CreateIndexReturns(s)
  \/ last.op # "cleanup" /\ \E s \in Sessions, fail \in WakeFailures : SetupWakes(s, fail)
  \/ last.op # "cleanup" /\ IndexBecomesReady
  \/ last.op # "cleanup" /\ \E s \in Sessions, documents \in DocLists : AddStep(s, documents)
  \/ last.op # "cleanup" /\ \E s \in Sessions, storage_mode \in Scopes :
                              ClearStep(s, storage_mode)
  \/ \E s \in Sessions, namespace \in Namespaces, fail \in BOOLEAN :
       CleanupTempNamespace(s, namespace, fail)

SpecExit == Init /\ [][NextExit]_vars

\* C30: a setup in temporary mode leaves the namespace it makes active in
\* the session's registry exactly once and with an exit cleanup registered,
\* and the registry never holds a namespace twice; the exit cleanup returns
\* whatever the backend does, changes nothing but the index, changes only
\* namespaces whose name starts with "temp_session_" and leaves the vectors
\* of the persistent namespace as they are.
C30_TempNamespaceRegisteredAndCleaned ==
  [][\A s \in Sessions :
       /\ (/\ last'.op \in {"setup", "setup_create"} /\ last'.s = s
           /\ last'.arg = "temporary"
           /\ startswith(rag_system'[s].current_namespace, TEMP_PREFIX)) =>
            /\ temp_namespaces'[s].present
            /\ Cardinality({i \in 1..Len(temp_namespaces'[s].list) :
                              temp_namespaces'[s].list[i] = rag_system'[s].current_namespace}) = 1
            /\ InSeq(Registration(s, rag_system'[s].current_namespace), atexit')
       /\ (rag_system'[s].current_namespace # rag_system[s].current_namespace
             /\ startswith(rag_system'[s].current_namespace, TEMP_PREFIX)) =>
            (last'.op \in {"setup", "setup_create"} /\ last'.s = s
             /\ last'.arg = "temporary")
       /\ \A i, j \in 1..Len(temp_namespaces'[s].list) :
            i # j => temp_namespaces'[s].list[i] # temp_namespaces'[s].list[j]
       /\ last'.op = "cleanup" =>
            /\ last'.ret = "returned"
            /\ index'[PERSISTENT] = index[PERSISTENT]
            /\ \A n \in Namespaces : index'[n] # index[n] => startswith(n, TEMP_PREFIX)
            /\ rag_system' = rag_system /\ temp_namespaces' = temp_namespaces]_vars

\* C30 witness: the exit cleanup emptied the session's registered temporary
\* namespace, which held vectors, and the persistent namespace still holds
\* the vectors ingested in permanent mode.
C30_Witness ==
  /\ last.op = "cleanup" /\ last.deleted # << >>
  /\ \A i \in 1..Len(last.deleted) :
       /\ startswith(last.deleted[i], TEMP_PREFIX)
       /\ InSeq(last.deleted[i], temp_namespaces[last.s].list)
       /\ index[last.deleted[i]] = EmptyBag
  /\ index[PERSISTENT] # EmptyBag

====
